---- MODULE Spec2Model ----
(***************************************************************************)
(* State-machine model of the Insider Trading rules engine: GameEngine,    *)
(* GameState, ValidationSystem, TurnSystem, the four phase managers,       *)
(* DeckManager, StockPriceSystem, RewardSystem and GoalParser.             *)
(*                                                                         *)
(* A JS function that mutates the game state and emits events is an        *)
(* operator from a "world" record [state, emitted, thrown] to a world      *)
(* record: state is the GameState aggregate, emitted the events delivered  *)
(* to the EventEmitter during the current engine call, thrown the message  *)
(* of an exception that is propagating (NULL when none).                   *)
(***************************************************************************)
EXTENDS Integers, Sequences, FiniteSets, TLC

VARIABLES state, emitted, outcome, limit, listeners, received

vars == <<state, emitted, outcome, limit, listeners, received>>

(* ------------------------------ constants ------------------------------ *)

NULL == "null"

UNDEFINED == "undefined"

(* null and undefined where an object is expected.                         *)
NullRecord == [null |-> TRUE]

UndefinedRecord == [undefined |-> TRUE]

(* null where a card, an index or a price is expected.                     *)
NoCard == 0

NoIndex == -1

NoPrice == -1

COLORS == <<"Blue", "Orange", "Yellow", "Purple">>

ColorSet == {COLORS[i] : i \in 1..Len(COLORS)}

PHASES == [AUCTION |-> "auction", TRADING |-> "trading",
           GOAL_RESOLUTION |-> "goal_resolution", SELL |-> "sell"]

GAME_STATUS == [NOT_STARTED |-> "not_started", IN_PROGRESS |-> "in_progress",
                COMPLETED |-> "completed"]

OFFER_STATUS == [ACTIVE |-> "active", CANCELLED |-> "cancelled",
                 ACCEPTED |-> "accepted"]

DEFAULT_CONFIG == [startingCash |-> 5, startingResourceCards |-> 2,
                   startingGoalCards |-> 3, startingStockPrice |-> 4,
                   totalRounds |-> 3, tradingDuration |-> 120000,
                   minStockPrice |-> 0, maxStockPrice |-> NoPrice]

(* The players handed to initialize(), in seat order (turnOrder).          *)
PlayerIds == <<"p1", "p2", "p3">>

PlayerSet == {PlayerIds[i] : i \in 1..Len(PlayerIds)}

NumPlayers == Len(PlayerIds)

(* turnOrder[i] for a 0-based JS index i.                                  *)
TurnOrderAt(i) == PlayerIds[i + 1]

(* ------------------------- sequence helpers ---------------------------- *)

SeqToSet(s) == {s[i] : i \in 1..Len(s)}

Contains(s, x) == \E i \in 1..Len(s) : s[i] = x

(* Array.prototype.findIndex / indexOf, 1-based; 0 when absent.            *)
IndexOf(s, x) ==
  IF Contains(s, x) THEN CHOOSE i \in 1..Len(s) : s[i] = x /\ \A j \in 1..(i - 1) : s[j] # x
  ELSE 0

RemoveAt(s, i) == SubSeq(s, 1, i - 1) \o SubSeq(s, i + 1, Len(s))

Min(a, b) == IF a < b THEN a ELSE b

Max(a, b) == IF a > b THEN a ELSE b

(* The element of a one-element set.  Only({e(x) : x \in {v}}) is e(v)     *)
(* with v computed once: how a handler's intermediate value is named.      *)
Only(S) == CHOOSE x \in S : TRUE

RECURSIVE SumSeq(_)
SumSeq(s) == IF s = <<>> THEN 0 ELSE Head(s) + SumSeq(Tail(s))

(* ------------------------------ the cards ------------------------------ *)

(* The resource deck handed to initialize(): card id i has colour          *)
(* DeckColors[i] (ResourceCard: immutable id + colour).                    *)
DeckColors == <<"Blue", "Orange", "Yellow", "Purple",
                "Blue", "Orange", "Yellow", "Purple",
                "Blue", "Orange", "Yellow", "Purple",
                "Blue", "Orange">>

CardIds == 1..Len(DeckColors)

ColorOf(c) == DeckColors[c]

StartingCount(color) == Cardinality({c \in CardIds : ColorOf(c) = color})

(* The goal deck handed to initialize().  A goal card is an immutable id   *)
(* (its position here) with the three parsed facets the engine reads from  *)
(* metadata: stockChangeParsed (Object.entries order), goalParsed and      *)
(* rewardParsed.                                                           *)
Chg(color, change) == [color |-> color, change |-> change]

Req(color, count) == [color |-> color, count |-> count]

AtLeast(reqs) == [type |-> "pair", avoidColor |-> NULL, requirements |-> reqs]

NoneOf(color) == [type |-> "none_of", avoidColor |-> color, requirements |-> <<>>]

Reward(type, target, choice, n) ==
  [type |-> type, requiresTarget |-> target, requiresChoice |-> choice, n |-> n]

GoalCards == <<
  [stockChange |-> <<Chg("Blue", 2)>>, goal |-> AtLeast(<<Req("Blue", 1)>>),
   reward |-> Reward("gain_cash", FALSE, FALSE, 1)],
  [stockChange |-> <<Chg("Orange", -1)>>, goal |-> NoneOf("Purple"),
   reward |-> Reward("steal_cash", TRUE, FALSE, 1)],
  [stockChange |-> <<Chg("Yellow", 1), Chg("Purple", -1)>>,
   goal |-> AtLeast(<<Req("Blue", 3)>>),
   reward |-> Reward("adjust_stock", FALSE, TRUE, 0)],
  [stockChange |-> <<Chg("Purple", 1)>>, goal |-> AtLeast(<<Req("Yellow", 1)>>),
   reward |-> Reward("rearrange_top_5", FALSE, TRUE, 0)],
  [stockChange |-> <<Chg("Blue", -5)>>,
   goal |-> AtLeast(<<Req("Yellow", 1), Req("Purple", 1)>>),
   reward |-> Reward("swap_with_deck", FALSE, TRUE, 0)],
  [stockChange |-> <<>>, goal |-> NoneOf("Blue"),
   reward |-> Reward("take_and_give_card", TRUE, FALSE, 0)],
  [stockChange |-> <<Chg("Orange", 1)>>, goal |-> AtLeast(<<Req("Orange", 1)>>),
   reward |-> Reward("buy_with_discount", FALSE, TRUE, 2)],
  [stockChange |-> <<Chg("Yellow", -1)>>, goal |-> AtLeast(<<Req("Blue", 1)>>),
   reward |-> Reward("sell_bonus", FALSE, FALSE, 1)],
  [stockChange |-> <<Chg("Purple", -2)>>, goal |-> AtLeast(<<Req("Orange", 2)>>),
   reward |-> Reward("gain_lowest_stock", FALSE, FALSE, 0)],
  [stockChange |-> <<Chg("Blue", 1)>>, goal |-> NoneOf("Yellow"),
   reward |-> Reward("peek_and_place", FALSE, TRUE, 0)],
  [stockChange |-> <<Chg("Orange", 2)>>, goal |-> NoneOf("Orange"),
   reward |-> Reward("look_at_hand", TRUE, FALSE, 0)] >>

GoalIds == 1..Len(GoalCards)

(* ------------------------------ GameState ------------------------------ *)

PhaseStateKeys == {"auction", "trading", "goalResolution", "sell"}

CreateInitialPrices(price) == [c \in ColorSet |-> price]

(* phaseState is a JS object: besides its four declared slots it can gain  *)
(* the property "goal_resolution" (see CleanupPhase); a property that was  *)
(* never assigned reads as UNDEFINED.                                      *)
CreateInitialState(config) ==
  [status |-> GAME_STATUS.NOT_STARTED,
   currentRound |-> 1,
   currentPhase |-> NULL,
   players |-> [p \in PlayerSet |->
                  [cash |-> config.startingCash, hand |-> <<>>,
                   goalCards |-> <<>>, sellBonus |-> 0]],
   stockPrices |-> CreateInitialPrices(config.startingStockPrice),
   resourceDeck |-> [drawPile |-> <<>>, discardPile |-> <<>>],
   goalDeck |-> [undealt |-> <<>>],
   phaseState |-> [k \in PhaseStateKeys \cup {PHASES.GOAL_RESOLUTION} |->
                     IF k \in PhaseStateKeys THEN NullRecord ELSE UndefinedRecord],
   dealerIndex |-> 0,
   history |-> <<>>,
   config |-> config]

GetPlayer(st, playerId) == IF playerId \in PlayerSet THEN st.players[playerId] ELSE NullRecord

AdjustPlayerCash(st, playerId, amount) ==
  IF playerId \in PlayerSet
  THEN [st EXCEPT !.players[playerId].cash = IF @ + amount < 0 THEN 0 ELSE @ + amount]
  ELSE st

AddCardToHand(st, playerId, card) ==
  IF playerId \in PlayerSet
  THEN [st EXCEPT !.players[playerId].hand = Append(@, card)]
  ELSE st

(* removeCardFromHand returns the removed card (NULL when the player or    *)
(* the card is missing) and splices it out of the hand.                    *)
RemovedCard(st, playerId, cardId) ==
  IF playerId \in PlayerSet /\ Contains(st.players[playerId].hand, cardId)
  THEN cardId ELSE NoCard

RemoveCardFromHand(st, playerId, cardId) ==
  IF RemovedCard(st, playerId, cardId) = NoCard THEN st
  ELSE [st EXCEPT !.players[playerId].hand = RemoveAt(@, IndexOf(@, cardId))]

CardsOfColor(hand, color) == SelectSeq(hand, LAMBDA c : ColorOf(c) = color)

(* removeCardsByColor: the first min(count, available) cards of the colour *)
RemovedByColor(st, playerId, color, count) ==
  IF playerId \notin PlayerSet THEN <<>>
  ELSE LET ofColor == CardsOfColor(st.players[playerId].hand, color)
       IN SubSeq(ofColor, 1, Min(count, Len(ofColor)))

RECURSIVE SpliceEach(_, _)
SpliceEach(hand, cards) ==
  IF cards = <<>> THEN hand
  ELSE SpliceEach(RemoveAt(hand, IndexOf(hand, Head(cards))), Tail(cards))

RemoveCardsByColor(st, playerId, color, count) ==
  IF playerId \notin PlayerSet THEN st
  ELSE [st EXCEPT !.players[playerId].hand =
          SpliceEach(@, RemovedByColor(st, playerId, color, count))]

CalculatePlayerWealth(st, playerId) ==
  IF playerId \notin PlayerSet THEN 0
  ELSE st.players[playerId].cash
       + SumSeq([i \in 1..Len(st.players[playerId].hand) |->
                   st.stockPrices[ColorOf(st.players[playerId].hand[i])]])

(* A faulty record: the entry is put in front of the history.              *)
RecordActionInFront(st, action) ==
  [st EXCEPT !.history = <<[round |-> st.currentRound,
                            phase |-> st.currentPhase,
                            action |-> action]>> \o @]

RecordAction(st, action) ==
  [st EXCEPT !.history = Append(@, [round |-> st.currentRound,
                                    phase |-> st.currentPhase,
                                    action |-> action])]

(* A faulty advance: the new round begins with the starting prices.        *)
AdvanceRoundResettingPrices(st) ==
  [st EXCEPT !.currentRound = @ + 1,
             !.dealerIndex = (@ + 1) % NumPlayers,
             !.stockPrices = CreateInitialPrices(st.config.startingStockPrice)]

(* A faulty advance: the round counter skips a round.                      *)
AdvanceRoundTwice(st) ==
  [st EXCEPT !.currentRound = @ + 2,
             !.dealerIndex = (@ + 1) % NumPlayers]

AdvanceRound(st) ==
  [st EXCEPT !.currentRound = @ + 1,
             !.dealerIndex = (@ + 1) % NumPlayers]

(* filterForPlayer: a copy of the state in which the cards of the other    *)
(* players' hands and of the draw pile are replaced by hidden cards, the   *)
(* other players' unrevealed goal cards and the undealt goal cards by      *)
(* blank ones; every other property of the state is copied as it is.       *)
HiddenResource == [type |-> "resource", color |-> "hidden"]

HiddenGoal == [type |-> "goal", revealed |-> FALSE]

FilterForPlayer(st, playerId) ==
  [st EXCEPT
     !.players = [p \in PlayerSet |->
                    IF p = playerId THEN st.players[p]
                    ELSE [st.players[p] EXCEPT
                            !.hand = [i \in 1..Len(@) |-> HiddenResource],
                            !.goalCards = [i \in 1..Len(@) |->
                                             IF @[i].revealed THEN @[i] ELSE HiddenGoal]]],
     !.resourceDeck.drawPile = [i \in 1..Len(@) |-> HiddenResource],
     !.goalDeck.undealt = [i \in 1..Len(@) |-> [type |-> "goal"]]]

(* ----------------------------- EventEmitter ---------------------------- *)

(* listeners maps an event type (or "*") to the handlers subscribed to it, *)
(* in subscription order.  A handler has an identity, may throw when it is *)
(* called, and may have been registered with once: then it unsubscribes    *)
(* itself after its callback has returned.                                 *)
NoListeners == [k \in {} |-> <<>>]

Handler(id, throws, once) == [id |-> id, throws |-> throws, once |-> once]

HandlersOf(ls, eventType) == IF eventType \in DOMAIN ls THEN ls[eventType] ELSE <<>>

(* on(eventType, handler)                                                  *)
On(ls, eventType, handler) ==
  [k \in DOMAIN ls \cup {eventType} |-> IF k = eventType THEN Append(HandlersOf(ls, k), handler)
                                        ELSE ls[k]]

(* off(eventType, handler): the first occurrence is spliced out.           *)
Off(ls, eventType, handler) ==
  IF eventType \notin DOMAIN ls \/ IndexOf(ls[eventType], handler) = 0 THEN ls
  ELSE [ls EXCEPT ![eventType] = RemoveAt(@, IndexOf(@, handler))]

(* handlers.forEach over the live array of one key, from position i on: n  *)
(* is the length the array had when forEach began; a position the array no *)
(* longer has is not visited.  The call of a handler is logged in rec; an  *)
(* exception it throws is caught; a once handler that returned removes     *)
(* itself, which moves the handlers after it one position up.              *)
RECURSIVE ForEach(_, _, _, _, _, _)
ForEach(ls, key, i, n, eventType, rec) ==
  IF i > n \/ i > Len(ls[key]) THEN [listeners |-> ls, received |-> rec]
  ELSE ForEach(IF ls[key][i].once /\ ~ ls[key][i].throws
               THEN Off(ls, key, ls[key][i]) ELSE ls,
               key, i + 1, n, eventType,
               Append(rec, [handler |-> ls[key][i].id, event |-> eventType]))

(* emit(eventType, data): the handlers of the type, then the wildcard      *)
(* handlers.                                                               *)
EmitTo(ls, rec, eventType) ==
  Only({ IF "*" \in DOMAIN d.listeners
         THEN ForEach(d.listeners, "*", 1, Len(d.listeners["*"]), eventType, d.received)
         ELSE d
         : d \in {IF eventType \in DOMAIN ls
                  THEN ForEach(ls, eventType, 1, Len(ls[eventType]), eventType, rec)
                  ELSE [listeners |-> ls, received |-> rec]} })

(* The emits of one engine call, in order.                                 *)
RECURSIVE EmitAll(_, _, _)
EmitAll(ls, rec, events) ==
  IF events = <<>> THEN [listeners |-> ls, received |-> rec]
  ELSE Only({ EmitAll(d.listeners, d.received, Tail(events))
              : d \in {EmitTo(ls, rec, Head(events).type)} })

(* ------------------------------- worlds -------------------------------- *)

World(st) == [state |-> st, emitted |-> <<>>, thrown |-> NULL]

Emit(w, event) == [w EXCEPT !.emitted = Append(@, event)]

SetState(w, st) == [w EXCEPT !.state = st]

Throw(w, message) == [w EXCEPT !.thrown = message]

(* The PLAYER_CASH_CHANGED event the managers emit after changing a        *)
(* player's cash.                                                          *)
CashChanged(w, playerId, reason) ==
  Emit(w, [type |-> "PLAYER_CASH_CHANGED", playerId |-> playerId,
           newCash |-> w.state.players[playerId].cash, reason |-> reason])

(* ----------------------------- DeckManager ----------------------------- *)

(* draw: removes and returns up to count cards from the top.               *)
Drawn(st, count) == SubSeq(st.resourceDeck.drawPile, 1, Min(count, Len(st.resourceDeck.drawPile)))

Draw(w, count) ==
  LET drawn == Drawn(w.state, count)
      w1 == SetState(w, [w.state EXCEPT !.resourceDeck.drawPile =
                           SubSeq(@, Len(drawn) + 1, Len(@))])
  IN IF Len(drawn) > 0 THEN Emit(w1, [type |-> "CARD_DRAWN", count |-> Len(drawn)])
     ELSE w1

Discard(st, cards) == [st EXCEPT !.resourceDeck.discardPile = @ \o cards]

PeekTop(st, count) == SubSeq(st.resourceDeck.drawPile, 1, Min(count, Len(st.resourceDeck.drawPile)))

PlaceOnBottom(st, card) == [st EXCEPT !.resourceDeck.drawPile = Append(@, card)]

(* --------------------------- AuctionManager ---------------------------- *)

(* initializeAuction once the cards are drawn: w1 is the world the draw    *)
(* left.                                                                   *)
AuctionStarted(w1, cardsToAuction) ==
  Emit(SetState(w1, [w1.state EXCEPT !.phaseState.auction =
                       [cardsToAuction |-> cardsToAuction,
                        currentCardIndex |-> 0,
                        currentCard |-> IF Len(cardsToAuction) > 0 THEN cardsToAuction[1]
                                        ELSE NoCard,
                        currentBid |-> 0,
                        currentHighBidder |-> NULL,
                        activeBidders |-> PlayerSet,
                        startingPlayer |-> TurnOrderAt(w1.state.dealerIndex),
                        currentPlayerIndex |-> w1.state.dealerIndex,
                        lastRaiserIndex |-> NoIndex]]),
       [type |-> "AUCTION_STARTED", cardCount |-> Len(cardsToAuction)])

CardRevealed(w2, cardsToAuction) ==
  IF Len(cardsToAuction) > 0
  THEN Emit(w2, [type |-> "CARD_REVEALED", card |-> cardsToAuction[1], cardIndex |-> 0])
  ELSE w2

InitializeAuction(w) ==
  Only({ CardRevealed(AuctionStarted(Draw(w, NumPlayers + 2), cardsToAuction), cardsToAuction)
         : cardsToAuction \in {Drawn(w.state, NumPlayers + 2)} })

(* The seat the rotation stops at: the first seat after the current one    *)
(* (wrapping, the current seat last) whose player is still active; the     *)
(* current seat when nobody is active.                                     *)
NextActiveBidderIndex(auction) ==
  LET cur == auction.currentPlayerIndex
      hits == {k \in 1..NumPlayers : TurnOrderAt((cur + k) % NumPlayers) \in auction.activeBidders}
  IN IF hits = {} THEN cur
     ELSE (cur + (CHOOSE k \in hits : \A j \in hits : k <= j)) % NumPlayers

AdvanceToNextActiveBidder(st) ==
  [st EXCEPT !.phaseState.auction.currentPlayerIndex = NextActiveBidderIndex(st.phaseState.auction)]

(* A faulty next card: the turn pointer stays where the previous card     *)
(* left it.                                                                *)
MoveToNextCardKeepingTurn(w) ==
  LET st == w.state
      nextIndex == st.phaseState.auction.currentCardIndex + 1
      dealer == (st.dealerIndex + 1) % NumPlayers
      st1 == [st EXCEPT !.phaseState.auction.currentCardIndex = nextIndex,
                        !.dealerIndex = dealer]
  IN IF nextIndex < Len(st.phaseState.auction.cardsToAuction)
     THEN Emit(SetState(w, [st1 EXCEPT
                 !.phaseState.auction.currentCard = st.phaseState.auction.cardsToAuction[nextIndex + 1],
                 !.phaseState.auction.currentBid = 0,
                 !.phaseState.auction.currentHighBidder = NULL,
                 !.phaseState.auction.activeBidders = PlayerSet,
                 !.phaseState.auction.startingPlayer = TurnOrderAt(dealer),
                 !.phaseState.auction.lastRaiserIndex = NoIndex]),
               [type |-> "CARD_REVEALED",
                card |-> st.phaseState.auction.cardsToAuction[nextIndex + 1],
                cardIndex |-> nextIndex])
     ELSE Emit(SetState(w, st1), [type |-> "AUCTION_PHASE_COMPLETE"])

MoveToNextCard(w) ==
  LET st == w.state
      nextIndex == st.phaseState.auction.currentCardIndex + 1
      dealer == (st.dealerIndex + 1) % NumPlayers
      st1 == [st EXCEPT !.phaseState.auction.currentCardIndex = nextIndex,
                        !.dealerIndex = dealer]
  IN IF nextIndex < Len(st.phaseState.auction.cardsToAuction)
     THEN Emit(SetState(w, [st1 EXCEPT
                 !.phaseState.auction.currentCard = st.phaseState.auction.cardsToAuction[nextIndex + 1],
                 !.phaseState.auction.currentBid = 0,
                 !.phaseState.auction.currentHighBidder = NULL,
                 !.phaseState.auction.activeBidders = PlayerSet,
                 !.phaseState.auction.startingPlayer = TurnOrderAt(dealer),
                 !.phaseState.auction.currentPlayerIndex = dealer,
                 !.phaseState.auction.lastRaiserIndex = NoIndex]),
               [type |-> "CARD_REVEALED",
                card |-> st.phaseState.auction.cardsToAuction[nextIndex + 1],
                cardIndex |-> nextIndex])
     ELSE Emit(SetState(w, st1), [type |-> "AUCTION_PHASE_COMPLETE"])

(* Array.from(activeBidders)[0]: the Set keeps the players' seat order.    *)
FirstActiveBidder(auction) ==
  LET seats == {i \in 1..NumPlayers : PlayerIds[i] \in auction.activeBidders}
  IN IF seats = {} THEN UNDEFINED
     ELSE PlayerIds[CHOOSE i \in seats : \A j \in seats : i <= j]

AuctionWinner(auction) ==
  IF auction.currentHighBidder # NULL THEN auction.currentHighBidder
  ELSE FirstActiveBidder(auction)

(* completeCurrentCardAuction once the winner is known: payment, card and  *)
(* the four announcements.                                                 *)
AuctionWon(w, auction, winnerId) ==
  Emit(Emit(CashChanged(
              Emit(SetState(w, AddCardToHand(
                                 AdjustPlayerCash(w.state, winnerId, -auction.currentBid),
                                 winnerId, auction.currentCard)),
                   [type |-> "AUCTION_WON", playerId |-> winnerId,
                    card |-> auction.currentCard, amount |-> auction.currentBid]),
              winnerId, "auction_payment"),
            [type |-> "PLAYER_RECEIVED_CARD", playerId |-> winnerId, cardCount |-> 1]),
       [type |-> "AUCTION_CARD_COMPLETE", cardIndex |-> auction.currentCardIndex])

CompleteCurrentCardAuction(w) ==
  MoveToNextCard(AuctionWon(w, w.state.phaseState.auction,
                            AuctionWinner(w.state.phaseState.auction)))

PlaceBid(w, action) ==
  LET auction == w.state.phaseState.auction
      st1 == [w.state EXCEPT !.phaseState.auction.currentBid = action.amount,
                             !.phaseState.auction.currentHighBidder = action.playerId,
                             !.phaseState.auction.lastRaiserIndex = auction.currentPlayerIndex]
      w1 == Emit(SetState(w, st1), [type |-> "BID_PLACED", playerId |-> action.playerId,
                                    amount |-> action.amount])
  IN SetState(w1, AdvanceToNextActiveBidder(w1.state))

(* A faulty pass: the player who passes stays among the active bidders.    *)
PassKeepingBidder(w, action) ==
  LET w1 == Emit(w, [type |-> "PLAYER_PASSED", playerId |-> action.playerId,
                     remainingBidders |-> w.state.phaseState.auction.activeBidders])
  IN SetState(w1, AdvanceToNextActiveBidder(w1.state))

(* pass after the rotation: w2 is the world with the turn on the next      *)
(* active bidder.                                                          *)
PassAdvanced(w2) ==
  IF /\ w2.state.phaseState.auction.lastRaiserIndex # NoIndex
     /\ w2.state.phaseState.auction.currentPlayerIndex
          = w2.state.phaseState.auction.lastRaiserIndex
     /\ w2.state.phaseState.auction.currentHighBidder # NULL
  THEN CompleteCurrentCardAuction(w2)
  ELSE w2

(* pass once the player has left the active bidders: w1 is the world with  *)
(* the pass announced.                                                     *)
PlayerPassed(w1, remaining) ==
  IF Cardinality(remaining) = 1 THEN CompleteCurrentCardAuction(w1)
  ELSE IF Cardinality(remaining) = 0
       THEN MoveToNextCard(SetState(w1, Discard(w1.state,
                                                <<w1.state.phaseState.auction.currentCard>>)))
  ELSE PassAdvanced(SetState(w1, AdvanceToNextActiveBidder(w1.state)))

Pass(w, action) ==
  PlayerPassed(Emit(SetState(w, [w.state EXCEPT
                      !.phaseState.auction.activeBidders = @ \ {action.playerId}]),
                    [type |-> "PLAYER_PASSED", playerId |-> action.playerId,
                     remainingBidders |->
                       w.state.phaseState.auction.activeBidders \ {action.playerId}]),
               w.state.phaseState.auction.activeBidders \ {action.playerId})

IsAuctionComplete(st) ==
  /\ st.phaseState.auction # NullRecord
  /\ st.phaseState.auction.currentCardIndex >= Len(st.phaseState.auction.cardsToAuction)

(* -------------------------- StockPriceSystem --------------------------- *)

(* A faulty clamp: the ceiling is not applied.                             *)
ConstrainPriceFloorOnly(config, price) ==
  IF price < config.minStockPrice THEN config.minStockPrice ELSE price

ConstrainPrice(config, price) ==
  IF price < config.minStockPrice THEN config.minStockPrice
  ELSE IF config.maxStockPrice # NoPrice /\ price > config.maxStockPrice THEN config.maxStockPrice
  ELSE price

(* applyChanges: the entries are applied in order; an entry whose colour   *)
(* is not priced is skipped.                                               *)
RECURSIVE ApplyChanges(_, _, _)
ApplyChanges(config, prices, changes) ==
  IF changes = <<>> THEN prices
  ELSE LET e == Head(changes)
       IN ApplyChanges(config,
            IF e.color \in DOMAIN prices
            THEN [prices EXCEPT ![e.color] = ConstrainPrice(config, @ + e.change)]
            ELSE prices,
            Tail(changes))

GetLowestPriceColors(prices) ==
  {c \in DOMAIN prices : \A d \in DOMAIN prices : prices[c] <= prices[d]}

(* ------------------------------ GoalParser ----------------------------- *)

(* A faulty goal check: one card of a required colour is taken to be       *)
(* enough.                                                                 *)
CheckGoalAnyCount(goalParsed, hand) ==
  IF goalParsed.type = "none_of"
  THEN ~ \E i \in 1..Len(hand) : ColorOf(hand[i]) = goalParsed.avoidColor
  ELSE \A i \in 1..Len(goalParsed.requirements) :
         Len(CardsOfColor(hand, goalParsed.requirements[i].color)) >= 1

CheckGoal(goalParsed, hand) ==
  IF goalParsed.type = "none_of"
  THEN ~ \E i \in 1..Len(hand) : ColorOf(hand[i]) = goalParsed.avoidColor
  ELSE \A i \in 1..Len(goalParsed.requirements) :
         Len(CardsOfColor(hand, goalParsed.requirements[i].color))
           >= goalParsed.requirements[i].count

(* --------------------------- TradingManager ---------------------------- *)

InitializeTrading(w) ==
  Emit(SetState(w, [w.state EXCEPT !.phaseState.trading =
                      [activeOffers |-> <<>>,
                       timeRemaining |-> w.state.config.tradingDuration]]),
       [type |-> "TRADING_PHASE_STARTED", duration |-> w.state.config.tradingDuration])

(* uuid(): an id no other offer of the game carries.                       *)
FreshOfferId(st) == st.currentRound * 100 + Len(st.phaseState.trading.activeOffers) + 1

ProposeTrade(w, action) ==
  LET offer == [offerId |-> FreshOfferId(w.state),
                offeringPlayer |-> action.playerId,
                offering |-> [cards |-> action.offering.cards, cash |-> action.offering.cash],
                requesting |-> [cards |-> action.requesting.cards, cash |-> action.requesting.cash],
                status |-> OFFER_STATUS.ACTIVE]
  IN Emit(SetState(w, [w.state EXCEPT !.phaseState.trading.activeOffers = Append(@, offer)]),
          [type |-> "TRADE_PROPOSED", offerId |-> offer.offerId])

(* activeOffers.find(o => o.offerId === offerId), as a 1-based position;   *)
(* 0 when there is none.                                                   *)
FindOffer(st, offerId) ==
  LET offers == st.phaseState.trading.activeOffers
      hits == {i \in 1..Len(offers) : offers[i].offerId = offerId}
  IN IF hits = {} THEN 0 ELSE CHOOSE i \in hits : \A j \in hits : i <= j

(* A faulty transfer: the offered cards leave the proposer's hand and       *)
(* reach nobody.                                                           *)
RECURSIVE GiveOfferedCardsDropping(_, _, _, _)
GiveOfferedCardsDropping(st, from, to, cardIds) ==
  IF cardIds = <<>> THEN st
  ELSE GiveOfferedCardsDropping(RemoveCardFromHand(st, from, Head(cardIds)),
                                from, to, Tail(cardIds))

RECURSIVE GiveOfferedCards(_, _, _, _)
GiveOfferedCards(st, from, to, cardIds) ==
  IF cardIds = <<>> THEN st
  ELSE LET card == RemovedCard(st, from, Head(cardIds))
           st1 == RemoveCardFromHand(st, from, Head(cardIds))
       IN GiveOfferedCards(IF card # NoCard THEN AddCardToHand(st1, to, card) ELSE st1,
                           from, to, Tail(cardIds))

RECURSIVE AddCardsToHand(_, _, _)
AddCardsToHand(st, playerId, cards) ==
  IF cards = <<>> THEN st
  ELSE AddCardsToHand(AddCardToHand(st, playerId, Head(cards)), playerId, Tail(cards))

RECURSIVE GiveRequestedCards(_, _, _, _)
GiveRequestedCards(st, from, to, cardReqs) ==
  IF cardReqs = <<>> THEN st
  ELSE LET r == Head(cardReqs)
           cards == RemovedByColor(st, from, r.color, r.count)
           st1 == RemoveCardsByColor(st, from, r.color, r.count)
       IN GiveRequestedCards(AddCardsToHand(st1, to, cards), from, to, Tail(cardReqs))

(* executeTrade's transfer of cash, done when the amount is positive: the  *)
(* payer is debited (not below zero), the payee credited, and both cash    *)
(* changes are announced, the payer's first.                               *)
TransferCash(w, from, to, amount) ==
  IF amount > 0
  THEN CashChanged(CashChanged(
         SetState(w, AdjustPlayerCash(AdjustPlayerCash(w.state, from, -amount), to, amount)),
         from, "trade"), to, "trade")
  ELSE w

ExecuteTrade(w, offer, acceptingPlayer) ==
  Emit(TransferCash(
         TransferCash(
           SetState(w, GiveRequestedCards(
                         GiveOfferedCards(w.state, offer.offeringPlayer, acceptingPlayer,
                                          offer.offering.cards),
                         acceptingPlayer, offer.offeringPlayer, offer.requesting.cards)),
           offer.offeringPlayer, acceptingPlayer, offer.offering.cash),
         acceptingPlayer, offer.offeringPlayer, offer.requesting.cash),
       [type |-> "TRADE_COMPLETED", offerId |-> offer.offerId,
        offeringPlayer |-> offer.offeringPlayer, acceptingPlayer |-> acceptingPlayer])

(* The proposer still holds every offered card and the offered cash.       *)
CanFulfill(st, offer) ==
  /\ \A i \in 1..Len(offer.offering.cards) :
       Contains(st.players[offer.offeringPlayer].hand, offer.offering.cards[i])
  /\ st.players[offer.offeringPlayer].cash >= offer.offering.cash

ShouldAutoCancel(st, offer, playerId) ==
  /\ offer.status = OFFER_STATUS.ACTIVE
  /\ offer.offeringPlayer = playerId
  /\ ~ CanFulfill(st, offer)

RECURSIVE AutoCancelFrom(_, _, _)
AutoCancelFrom(w, playerId, i) ==
  IF i > Len(w.state.phaseState.trading.activeOffers) THEN w
  ELSE LET offer == w.state.phaseState.trading.activeOffers[i]
       IN AutoCancelFrom(
            IF ShouldAutoCancel(w.state, offer, playerId)
            THEN Emit(SetState(w, [w.state EXCEPT
                        !.phaseState.trading.activeOffers[i].status = OFFER_STATUS.CANCELLED]),
                      [type |-> "TRADE_CANCELLED", offerId |-> offer.offerId,
                       reason |-> "auto_cancel_insufficient_resources"])
            ELSE w,
            playerId, i + 1)

(* A faulty auto-cancel: it cancels nothing.                               *)
AutoCancelNothing(w, playerId) == w

AutoCancelInvalidOffers(w, playerId) == AutoCancelFrom(w, playerId, 1)

AcceptTrade(w, action) ==
  LET i == FindOffer(w.state, action.offerId)
  IN IF i = 0 \/ w.state.phaseState.trading.activeOffers[i].status # OFFER_STATUS.ACTIVE THEN w
     ELSE LET offer == w.state.phaseState.trading.activeOffers[i]
              w1 == Emit(SetState(w, [w.state EXCEPT
                           !.phaseState.trading.activeOffers[i].status = OFFER_STATUS.ACCEPTED]),
                         [type |-> "TRADE_ACCEPTED", offerId |-> action.offerId,
                          acceptingPlayer |-> action.playerId])
              w2 == ExecuteTrade(w1, offer, action.playerId)
          IN AutoCancelInvalidOffers(AutoCancelInvalidOffers(w2, offer.offeringPlayer),
                                     action.playerId)

CancelTrade(w, action) ==
  LET i == FindOffer(w.state, action.offerId)
  IN IF i # 0 /\ w.state.phaseState.trading.activeOffers[i].status = OFFER_STATUS.ACTIVE
     THEN Emit(SetState(w, [w.state EXCEPT
                 !.phaseState.trading.activeOffers[i].status = OFFER_STATUS.CANCELLED]),
               [type |-> "TRADE_CANCELLED", offerId |-> action.offerId,
                reason |-> "manual_cancellation"])
     ELSE w

EndTrading(w) == Emit(w, [type |-> "TRADING_PHASE_ENDED"])

(* A faulty expiry: the time left is compared with the whole duration.     *)
IsTimeExpiredAtOnce(st) == st.phaseState.trading.timeRemaining <= st.config.tradingDuration

IsTimeExpired(st) == st.phaseState.trading.timeRemaining <= 0

(* ----------------------------- RewardSystem ---------------------------- *)

(* rewardParsed.amount || 1, .discount || 1, .bonus || 1                   *)
OrOne(n) == IF n = 0 THEN 1 ELSE n

(* Math.floor(Math.random() * length) for a random source value rnd.       *)
RandomIndex(rnd, length) == rnd % length

ExecuteGainCash(w, playerId, amount) ==
  CashChanged(SetState(w, AdjustPlayerCash(w.state, playerId, amount)), playerId, "reward")

ExecuteStealCash(w, playerId, targetPlayerId, amount) ==
  IF targetPlayerId \notin PlayerSet
  THEN Throw(w, "TypeError: Cannot read properties of null (reading 'cash')")
  ELSE LET actualAmount == Min(amount, w.state.players[targetPlayerId].cash)
           st1 == AdjustPlayerCash(AdjustPlayerCash(w.state, targetPlayerId, -actualAmount),
                                   playerId, actualAmount)
       IN CashChanged(CashChanged(SetState(w, st1), targetPlayerId, "stolen"),
                      playerId, "reward")

ExecuteAdjustStock(w, color, direction) ==
  LET changes == <<Chg(color, direction)>>
      st1 == [w.state EXCEPT !.stockPrices = ApplyChanges(w.state.config, @, changes)]
  IN Emit(SetState(w, st1), [type |-> "STOCK_PRICES_UPDATED", changes |-> changes,
                             newPrices |-> st1.stockPrices, reason |-> "reward"])

ExecuteLookAtHand(w, playerId, targetPlayerId) ==
  IF targetPlayerId \notin PlayerSet
  THEN Throw(w, "TypeError: Cannot read properties of null (reading 'hand')")
  ELSE Emit(w, [type |-> "REWARD_EXECUTED", kind |-> "look_at_hand", playerId |-> playerId,
                targetPlayerId |-> targetPlayerId,
                hand |-> w.state.players[targetPlayerId].hand])

ExecutePeekAndPlace(w, placement) ==
  IF PeekTop(w.state, 1) = <<>> THEN w
  ELSE IF placement = "bottom"
       THEN LET card == Drawn(w.state, 1)[1]
                w1 == Draw(w, 1)
            IN SetState(w1, PlaceOnBottom(w1.state, card))
       ELSE w

(* swapWithTop throws on an empty draw pile; the reward then puts the card *)
(* back at the end of the hand.                                            *)
ExecuteSwapWithDeck(w, playerId, cardId) ==
  LET cardFromHand == RemovedCard(w.state, playerId, cardId)
      st1 == RemoveCardFromHand(w.state, playerId, cardId)
      pile == st1.resourceDeck.drawPile
  IN IF cardFromHand = NoCard THEN w
     ELSE IF pile = <<>> THEN SetState(w, AddCardToHand(st1, playerId, cardFromHand))
     ELSE SetState(w, AddCardToHand(
            [st1 EXCEPT !.resourceDeck.drawPile = <<cardFromHand>> \o Tail(pile)],
            playerId, Head(pile)))

(* DeckManager.rearrangeTop: whether it throws, and the pile it leaves.    *)
(* A faulty check of rearrangeTop: only the count is looked at.            *)
RearrangeTopThrowsOnCount(st, newOrder) ==
  Len(PeekTop(st, Len(newOrder))) # Len(newOrder)

RearrangeTopThrows(st, newOrder) ==
  LET topCards == PeekTop(st, Len(newOrder))
  IN \/ Len(topCards) # Len(newOrder)
     \/ \E i \in 1..Len(newOrder) : ~ Contains(topCards, newOrder[i])

RearrangeTop(st, newOrder) ==
  [st EXCEPT !.resourceDeck.drawPile = newOrder \o SubSeq(@, Len(newOrder) + 1, Len(@))]

ExecuteRearrangeTop5(w, newOrder) ==
  IF RearrangeTopThrows(w.state, newOrder) THEN w
  ELSE SetState(w, RearrangeTop(w.state, newOrder))

ExecuteTakeAndGiveCard(w, playerId, choices, rnd) ==
  IF choices.targetPlayerId \notin PlayerSet
     \/ w.state.players[choices.targetPlayerId].hand = <<>>
  THEN w
  ELSE LET target == choices.targetPlayerId
           takenCard == w.state.players[target].hand[
                          RandomIndex(rnd, Len(w.state.players[target].hand)) + 1]
           st1 == AddCardToHand(RemoveCardFromHand(w.state, target, takenCard),
                                playerId, takenCard)
           cardToGive == RemovedCard(st1, playerId, choices.cardIdToGive)
           st2 == RemoveCardFromHand(st1, playerId, choices.cardIdToGive)
       IN SetState(w, IF cardToGive # NoCard THEN AddCardToHand(st2, target, cardToGive)
                      ELSE st2)

(* The first card of the colour in the draw pile, as a position; 0 if none *)
FirstOfColorInPile(st, color) ==
  LET pile == st.resourceDeck.drawPile
      hits == {i \in 1..Len(pile) : ColorOf(pile[i]) = color}
  IN IF hits = {} THEN 0 ELSE CHOOSE i \in hits : \A j \in hits : i <= j

TakeFromPile(st, playerId, i) ==
  AddCardToHand([st EXCEPT !.resourceDeck.drawPile = RemoveAt(@, i)],
                playerId, st.resourceDeck.drawPile[i])

ExecuteBuyWithDiscount(w, playerId, color, discount) ==
  IF color \notin ColorSet THEN w
  ELSE LET discountedPrice == Max(0, w.state.stockPrices[color] - discount)
           i == FirstOfColorInPile(w.state, color)
       IN IF w.state.players[playerId].cash < discountedPrice \/ i = 0 THEN w
          ELSE CashChanged(SetState(w, AdjustPlayerCash(TakeFromPile(w.state, playerId, i),
                                                        playerId, -discountedPrice)),
                           playerId, "buy_with_discount")

ExecuteSellBonus(w, playerId, bonus) ==
  SetState(w, [w.state EXCEPT !.players[playerId].sellBonus = bonus])

(* Object.keys(prices).filter(...): the lowest colours in COLORS order.    *)
LowestColorsSeq(prices) ==
  SelectSeq(COLORS, LAMBDA c : c \in GetLowestPriceColors(prices))

ExecuteGainLowestStock(w, playerId, rnd) ==
  LET lowest == LowestColorsSeq(w.state.stockPrices)
      color == lowest[RandomIndex(rnd, Len(lowest)) + 1]
      i == FirstOfColorInPile(w.state, color)
  IN IF i = 0 THEN w
     ELSE Emit(SetState(w, TakeFromPile(w.state, playerId, i)),
               [type |-> "PLAYER_RECEIVED_CARD", playerId |-> playerId, cardCount |-> 1])

(* executeReward returns false exactly when input is needed and missing;   *)
(* every handler returns true.                                             *)
RewardNeedsInput(rewardParsed, choices) ==
  (rewardParsed.requiresTarget \/ rewardParsed.requiresChoice) /\ choices = NullRecord

ExecuteReward(w, playerId, rewardParsed, choices, rnd) ==
  IF RewardNeedsInput(rewardParsed, choices) THEN w
  ELSE IF choices = NullRecord
          /\ rewardParsed.type \in {"steal_cash", "adjust_stock", "look_at_hand",
               "peek_and_place", "swap_with_deck", "rearrange_top_5", "buy_with_discount"}
       THEN Throw(w, "TypeError: Cannot read properties of null")
  ELSE CASE rewardParsed.type = "gain_cash" ->
              ExecuteGainCash(w, playerId, OrOne(rewardParsed.n))
         [] rewardParsed.type = "steal_cash" ->
              ExecuteStealCash(w, playerId, choices.targetPlayerId, OrOne(rewardParsed.n))
         [] rewardParsed.type = "adjust_stock" ->
              ExecuteAdjustStock(w, choices.color, choices.direction)
         [] rewardParsed.type = "look_at_hand" ->
              ExecuteLookAtHand(w, playerId, choices.targetPlayerId)
         [] rewardParsed.type = "peek_and_place" ->
              ExecutePeekAndPlace(w, choices.placement)
         [] rewardParsed.type = "swap_with_deck" ->
              ExecuteSwapWithDeck(w, playerId, choices.cardId)
         [] rewardParsed.type = "rearrange_top_5" ->
              ExecuteRearrangeTop5(w, choices.newOrder)
         [] rewardParsed.type = "take_and_give_card" ->
              IF choices = NullRecord
              THEN Throw(w, "TypeError: Cannot destructure property of null")
              ELSE ExecuteTakeAndGiveCard(w, playerId, choices, rnd)
         [] rewardParsed.type = "buy_with_discount" ->
              ExecuteBuyWithDiscount(w, playerId, choices.color, OrOne(rewardParsed.n))
         [] rewardParsed.type = "sell_bonus" ->
              ExecuteSellBonus(w, playerId, OrOne(rewardParsed.n))
         [] rewardParsed.type = "gain_lowest_stock" ->
              ExecuteGainLowestStock(w, playerId, rnd)
         [] OTHER -> w

(* ------------------------ GoalResolutionManager ------------------------ *)

InitializeGoalResolution(w) ==
  Emit(SetState(w, [w.state EXCEPT !.phaseState.goalResolution =
                      [currentPlayerIndex |-> 0, revealedGoals |-> <<>>,
                       pendingRewardExecution |-> NullRecord]]),
       [type |-> "GOAL_RESOLUTION_STARTED"])

(* player.goalCards.find(g => g.id === goalCardId), as a position; 0 if    *)
(* the player does not hold the card.                                      *)
FindGoalCard(st, playerId, goalCardId) ==
  LET cards == st.players[playerId].goalCards
      hits == {i \in 1..Len(cards) : cards[i].id = goalCardId}
  IN IF hits = {} THEN 0 ELSE CHOOSE i \in hits : \A j \in hits : i <= j

ApplyStockChange(w, goalCardId) ==
  Only({ IF Len(changes) > 0
         THEN Only({ Emit(SetState(w, [w.state EXCEPT !.stockPrices = newPrices]),
                          [type |-> "STOCK_PRICES_UPDATED", changes |-> changes,
                           newPrices |-> newPrices, reason |-> "goal_revealed"])
                     : newPrices \in {ApplyChanges(w.state.config, w.state.stockPrices, changes)} })
         ELSE w
         : changes \in {GoalCards[goalCardId].stockChange} })

AdvanceToNextPlayer(w) ==
  LET st1 == [w.state EXCEPT !.phaseState.goalResolution.currentPlayerIndex = @ + 1]
  IN IF st1.phaseState.goalResolution.currentPlayerIndex >= NumPlayers
     THEN Emit(SetState(w, st1), [type |-> "GOAL_RESOLUTION_PHASE_COMPLETE"])
     ELSE SetState(w, st1)

(* revealedGoals.find(g => g.playerId === playerId && !g.rewardExecuted)   *)
FirstUnexecuted(st, playerId) ==
  LET goals == st.phaseState.goalResolution.revealedGoals
      hits == {i \in 1..Len(goals) : goals[i].playerId = playerId /\ ~ goals[i].rewardExecuted}
  IN IF hits = {} THEN 0 ELSE CHOOSE i \in hits : \A j \in hits : i <= j

CompleteRewardExecution(w, playerId) ==
  Only({ AdvanceToNextPlayer(
           Emit(Emit(SetState(w, [w.state EXCEPT
                       !.phaseState.goalResolution.revealedGoals =
                          IF i = 0 THEN @ ELSE [@ EXCEPT ![i].rewardExecuted = TRUE],
                       !.phaseState.goalResolution.pendingRewardExecution = NullRecord]),
                     [type |-> "REWARD_EXECUTED", playerId |-> playerId]),
                [type |-> "GOAL_RESOLUTION_PLAYER_COMPLETE", playerId |-> playerId]))
         : i \in {FirstUnexecuted(w.state, playerId)} })

(* What follows rewardSystem.executeReward in initiateRewardExecution: w2  *)
(* is the world it left.                                                   *)
RewardInitiated(w2, playerId, goalCardId, rewardParsed) ==
  IF w2.thrown # NULL THEN w2
  ELSE IF ~ RewardNeedsInput(rewardParsed, NullRecord) THEN CompleteRewardExecution(w2, playerId)
  ELSE SetState(w2, [w2.state EXCEPT !.phaseState.goalResolution.pendingRewardExecution =
                       [playerId |-> playerId, rewardType |-> rewardParsed.type,
                        goalCard |-> goalCardId]])

InitiateRewardExecution(w, playerId, goalCardId, rnd) ==
  Only({ RewardInitiated(
           ExecuteReward(Emit(w, [type |-> "REWARD_AVAILABLE", playerId |-> playerId,
                                  rewardType |-> rewardParsed.type,
                                  requiresInput |-> rewardParsed.requiresTarget
                                                    \/ rewardParsed.requiresChoice]),
                         playerId, rewardParsed, NullRecord, rnd),
           playerId, goalCardId, rewardParsed)
         : rewardParsed \in {GoalCards[goalCardId].reward} })

(* revealGoal once the goal has been checked: w2 is the world after the    *)
(* stock change.                                                           *)
GoalChecked(w2, playerId, goalCardId, goalMet, rnd) ==
  Only({ IF goalMet THEN InitiateRewardExecution(w4, playerId, goalCardId, rnd)
         ELSE AdvanceToNextPlayer(w4)
         : w4 \in {Emit(SetState(w2, [w2.state EXCEPT
                                        !.phaseState.goalResolution.revealedGoals =
                                           Append(@, [playerId |-> playerId,
                                                      goalCard |-> goalCardId,
                                                      goalMet |-> goalMet,
                                                      rewardExecuted |-> FALSE])]),
                         [type |-> "GOAL_CHECKED", playerId |-> playerId,
                          goalCard |-> goalCardId, goalMet |-> goalMet])} })

(* revealGoal from the stock change on: w1 is the world with the card      *)
(* revealed.                                                               *)
GoalRevealed(w1, playerId, goalCardId, rnd) ==
  Only({ GoalChecked(w2, playerId, goalCardId,
                     CheckGoal(GoalCards[goalCardId].goal, w2.state.players[playerId].hand),
                     rnd)
         : w2 \in {ApplyStockChange(w1, goalCardId)} })

RevealGoal(w, action, rnd) ==
  Only({ IF i = 0 THEN w
         ELSE GoalRevealed(Emit(SetState(w, [w.state EXCEPT
                                  !.players[action.playerId].goalCards[i].revealed = TRUE]),
                                [type |-> "GOAL_REVEALED", playerId |-> action.playerId,
                                 goalCard |-> action.goalCardId]),
                           action.playerId, action.goalCardId, rnd)
         : i \in {FindGoalCard(w.state, action.playerId, action.goalCardId)} })

(* What follows rewardSystem.executeReward in executeReward: w1 is the     *)
(* world it left.                                                          *)
RewardExecuted(w1, playerId, executed) ==
  IF w1.thrown # NULL THEN w1
  ELSE IF executed THEN CompleteRewardExecution(w1, playerId)
  ELSE w1

ExecutePendingReward(w, action, rnd) ==
  IF w.state.phaseState.goalResolution.pendingRewardExecution = NullRecord THEN w
  ELSE Only({ RewardExecuted(
                ExecuteReward(w, action.playerId, rewardParsed, action.choices, rnd),
                action.playerId, ~ RewardNeedsInput(rewardParsed, action.choices))
              : rewardParsed \in
                  {GoalCards[w.state.phaseState.goalResolution.pendingRewardExecution.goalCard].reward} })

IsGoalResolutionComplete(st) ==
  /\ st.phaseState.goalResolution # NullRecord
  /\ st.phaseState.goalResolution.currentPlayerIndex >= NumPlayers
  /\ st.phaseState.goalResolution.pendingRewardExecution = NullRecord

(* ------------------------------ SellManager ---------------------------- *)

InitializeSell(w) ==
  Emit(SetState(w, [w.state EXCEPT !.phaseState.sell =
                      [playerSelections |-> [p \in PlayerSet |->
                                               [cardsToSell |-> <<>>, committed |-> FALSE]],
                       allCommitted |-> FALSE]]),
       [type |-> "SELL_PHASE_STARTED"])

(* A faulty selection: it is dropped once any player has committed.        *)
SelectCardsToSellBeforeCommits(w, action) ==
  IF action.playerId \notin PlayerSet THEN w
  ELSE Emit(SetState(w, [w.state EXCEPT
              !.phaseState.sell.playerSelections[action.playerId].cardsToSell =
                IF \E q \in PlayerSet : w.state.phaseState.sell.playerSelections[q].committed
                THEN @ ELSE action.cardIds]),
            [type |-> "CARDS_SELECTED_TO_SELL", playerId |-> action.playerId,
             cardCount |-> Len(action.cardIds)])

SelectCardsToSell(w, action) ==
  IF action.playerId \notin PlayerSet THEN w
  ELSE Emit(SetState(w, [w.state EXCEPT
              !.phaseState.sell.playerSelections[action.playerId].cardsToSell = action.cardIds]),
            [type |-> "CARDS_SELECTED_TO_SELL", playerId |-> action.playerId,
             cardCount |-> Len(action.cardIds)])

(* One player's sale: each selected card still in the hand is removed,     *)
(* valued at its colour's price plus the player's sell bonus and discarded.*)
RECURSIVE SellCards(_, _, _)
SellCards(acc, playerId, cardIds) ==
  IF cardIds = <<>> THEN acc
  ELSE LET card == RemovedCard(acc.state, playerId, Head(cardIds))
           st1 == RemoveCardFromHand(acc.state, playerId, Head(cardIds))
           bonus == acc.state.players[playerId].sellBonus
           salePrice == acc.state.stockPrices[ColorOf(card)] + (IF bonus > 0 THEN bonus ELSE 0)
       IN SellCards(IF card = NoCard THEN acc
                    ELSE [state |-> Discard(st1, <<card>>),
                          earnings |-> acc.earnings + salePrice,
                          cards |-> Append(acc.cards, card)],
                    playerId, Tail(cardIds))

(* executeSells for one player once the cards are sold: the earnings are   *)
(* paid and announced when positive, then a positive sell bonus is reset.  *)
PlayerPaid(w, playerId, sold) ==
  IF sold.earnings > 0
  THEN CashChanged(SetState(w, AdjustPlayerCash(sold.state, playerId, sold.earnings)),
                   playerId, "sold_cards")
  ELSE SetState(w, sold.state)

(* A faulty reset: the sell bonus is kept for the next round.               *)
ResetSellBonusKeeping(w1, playerId) == w1

ResetSellBonus(w1, playerId) ==
  SetState(w1, [w1.state EXCEPT !.players[playerId].sellBonus = IF @ > 0 THEN 0 ELSE @])

PlayerSold(w, playerId, sold) == ResetSellBonus(PlayerPaid(w, playerId, sold), playerId)

RECURSIVE ExecuteSellsFrom(_, _, _)
ExecuteSellsFrom(w, sales, i) ==
  IF i > NumPlayers THEN Emit(Emit(w, [type |-> "SELLS_REVEALED", sales |-> sales]),
                              [type |-> "SELL_PHASE_COMPLETE"])
  ELSE Only({ ExecuteSellsFrom(
                PlayerSold(w, PlayerIds[i], sold),
                Append(sales, [playerId |-> PlayerIds[i], cards |-> sold.cards,
                               earnings |-> sold.earnings]),
                i + 1)
              : sold \in {SellCards([state |-> w.state, earnings |-> 0, cards |-> <<>>],
                                    PlayerIds[i],
                                    w.state.phaseState.sell.playerSelections[PlayerIds[i]]
                                      .cardsToSell)} })

ExecuteSells(w) == ExecuteSellsFrom(w, <<>>, 1)

(* A faulty commit: the sells are executed at every commit.                 *)
CommitSellAtOnce(w, action) ==
  IF action.playerId \notin PlayerSet THEN w
  ELSE ExecuteSells(
         Emit(Emit(SetState(w, [w.state EXCEPT
                     !.phaseState.sell.playerSelections[action.playerId].committed = TRUE,
                     !.phaseState.sell.allCommitted = TRUE]),
                   [type |-> "PLAYER_COMMITTED_SELL", playerId |-> action.playerId]),
              [type |-> "ALL_SELLS_COMMITTED"]))

CommitSell(w, action) ==
  IF action.playerId \notin PlayerSet THEN w
  ELSE LET st1 == [w.state EXCEPT
                     !.phaseState.sell.playerSelections[action.playerId].committed = TRUE]
           w1 == Emit(SetState(w, st1), [type |-> "PLAYER_COMMITTED_SELL",
                                         playerId |-> action.playerId])
       IN IF \A p \in PlayerSet : st1.phaseState.sell.playerSelections[p].committed
          THEN ExecuteSells(Emit(SetState(w1, [st1 EXCEPT !.phaseState.sell.allCommitted = TRUE]),
                                 [type |-> "ALL_SELLS_COMMITTED"]))
          ELSE w1

AreAllCommitted(st) ==
  /\ st.phaseState.sell # NullRecord
  /\ st.phaseState.sell.allCommitted

(* --------------------------- ValidationSystem -------------------------- *)
(* A validator yields "valid" or the error text (interpolated amounts are  *)
(* left out of the text).                                                  *)

VALID == "valid"

(* A faulty bid validator: it does not look at the bidder's cash.          *)
ValidateBidAnyAmount(st, action) ==
  IF st.currentPhase # PHASES.AUCTION THEN "Not in auction phase"
  ELSE IF action.playerId \notin PlayerSet THEN "Player not found"
  ELSE IF action.playerId \notin st.phaseState.auction.activeBidders
       THEN "You have already passed"
  ELSE IF action.amount <= st.phaseState.auction.currentBid
       THEN "Bid must be higher than current bid"
  ELSE VALID

(* A faulty bid check: a bid equal to the current bid is let through.      *)
ValidateBidMatching(st, action) ==
  IF st.currentPhase # PHASES.AUCTION THEN "Not in auction phase"
  ELSE IF action.playerId \notin PlayerSet THEN "Player not found"
  ELSE IF action.playerId \notin st.phaseState.auction.activeBidders
       THEN "You have already passed"
  ELSE IF action.amount < st.phaseState.auction.currentBid
       THEN "Bid must be higher than current bid"
  ELSE IF st.players[action.playerId].cash < action.amount THEN "Insufficient funds"
  ELSE VALID

ValidateBid(st, action) ==
  IF st.currentPhase # PHASES.AUCTION THEN "Not in auction phase"
  ELSE IF action.playerId \notin PlayerSet THEN "Player not found"
  ELSE IF action.playerId \notin st.phaseState.auction.activeBidders
       THEN "You have already passed"
  ELSE IF action.amount <= st.phaseState.auction.currentBid
       THEN "Bid must be higher than current bid"
  ELSE IF st.players[action.playerId].cash < action.amount THEN "Insufficient funds"
  ELSE VALID

ValidatePass(st, action) ==
  IF st.currentPhase # PHASES.AUCTION THEN "Not in auction phase"
  ELSE IF action.playerId \notin st.phaseState.auction.activeBidders
       THEN "You have already passed"
  ELSE VALID

(* !x || ((!x.cards || x.cards.length === 0) && !x.cash)                   *)
IsNothing(side) == side = NullRecord \/ (side.cards = <<>> /\ side.cash = 0)

ValidateTradeProposal(st, action) ==
  IF st.currentPhase # PHASES.TRADING THEN "Not in trading phase"
  ELSE IF action.playerId \notin PlayerSet THEN "Player not found"
  ELSE IF IsNothing(action.offering) THEN "Must offer something (cards or cash)"
  ELSE IF IsNothing(action.requesting) THEN "Must request something (cards or cash)"
  ELSE IF \E i \in 1..Len(action.offering.cards) :
            ~ Contains(st.players[action.playerId].hand, action.offering.cards[i])
       THEN "You don't own card"
  ELSE IF action.offering.cash # 0 /\ st.players[action.playerId].cash < action.offering.cash
       THEN "Insufficient cash to offer"
  ELSE VALID

ValidateTradeAcceptance(st, action) ==
  IF st.currentPhase # PHASES.TRADING THEN "Not in trading phase"
  ELSE IF action.playerId \notin PlayerSet THEN "Player not found"
  ELSE LET i == FindOffer(st, action.offerId)
           offer == st.phaseState.trading.activeOffers[i]
           player == st.players[action.playerId]
       IN IF i = 0 THEN "Offer not found"
          ELSE IF offer.status # OFFER_STATUS.ACTIVE THEN "Offer is no longer active"
          ELSE IF offer.offeringPlayer = action.playerId THEN "Cannot accept your own offer"
          ELSE IF offer.requesting.cash # 0 /\ player.cash < offer.requesting.cash
               THEN "Insufficient cash"
          ELSE IF \E k \in 1..Len(offer.requesting.cards) :
                    Len(CardsOfColor(player.hand, offer.requesting.cards[k].color))
                      < offer.requesting.cards[k].count
               THEN "Need more cards"
          ELSE VALID

(* A faulty cancellation check: whose offer it is goes unchecked.           *)
ValidateTradeCancellationAnyone(st, action) ==
  IF st.currentPhase # PHASES.TRADING THEN "Not in trading phase"
  ELSE LET i == FindOffer(st, action.offerId)
           offer == st.phaseState.trading.activeOffers[i]
       IN IF i = 0 THEN "Offer not found"
          ELSE IF offer.status # OFFER_STATUS.ACTIVE THEN "Offer is no longer active"
          ELSE VALID

ValidateTradeCancellation(st, action) ==
  IF st.currentPhase # PHASES.TRADING THEN "Not in trading phase"
  ELSE LET i == FindOffer(st, action.offerId)
           offer == st.phaseState.trading.activeOffers[i]
       IN IF i = 0 THEN "Offer not found"
          ELSE IF offer.offeringPlayer # action.playerId THEN "Can only cancel your own offers"
          ELSE IF offer.status # OFFER_STATUS.ACTIVE THEN "Offer is no longer active"
          ELSE VALID

(* A faulty reveal check: a card already revealed may be revealed again.   *)
ValidateGoalRevealAgain(st, action) ==
  IF st.currentPhase # PHASES.GOAL_RESOLUTION THEN "Not in goal resolution phase"
  ELSE IF action.playerId \notin PlayerSet THEN "Player not found"
  ELSE LET idx == st.phaseState.goalResolution.currentPlayerIndex
           expectedPlayerId == IF idx < NumPlayers THEN TurnOrderAt(idx) ELSE UNDEFINED
           i == FindGoalCard(st, action.playerId, action.goalCardId)
       IN IF expectedPlayerId # action.playerId THEN "Not your turn to reveal a goal"
          ELSE IF i = 0 THEN "Goal card not found in your hand"
          ELSE VALID

ValidateGoalReveal(st, action) ==
  IF st.currentPhase # PHASES.GOAL_RESOLUTION THEN "Not in goal resolution phase"
  ELSE IF action.playerId \notin PlayerSet THEN "Player not found"
  ELSE LET idx == st.phaseState.goalResolution.currentPlayerIndex
           expectedPlayerId == IF idx < NumPlayers THEN TurnOrderAt(idx) ELSE UNDEFINED
           i == FindGoalCard(st, action.playerId, action.goalCardId)
       IN IF expectedPlayerId # action.playerId THEN "Not your turn to reveal a goal"
          ELSE IF i = 0 THEN "Goal card not found in your hand"
          ELSE IF st.players[action.playerId].goalCards[i].revealed
               THEN "Goal card already revealed"
          ELSE VALID

ValidateRewardExecution(st, action) ==
  IF st.currentPhase # PHASES.GOAL_RESOLUTION THEN "Not in goal resolution phase"
  ELSE IF st.phaseState.goalResolution.pendingRewardExecution = NullRecord
       THEN "No pending reward to execute"
  ELSE IF st.phaseState.goalResolution.pendingRewardExecution.playerId # action.playerId
       THEN "Reward is not for you"
  ELSE VALID

ValidateSellSelection(st, action) ==
  IF st.currentPhase # PHASES.SELL THEN "Not in sell phase"
  ELSE IF action.playerId \notin PlayerSet THEN "Player not found"
  ELSE IF \E i \in 1..Len(action.cardIds) :
            ~ Contains(st.players[action.playerId].hand, action.cardIds[i])
       THEN "You don't own card"
  ELSE VALID

ValidateSellCommit(st, action) ==
  IF st.currentPhase # PHASES.SELL THEN "Not in sell phase"
  ELSE IF action.playerId \notin PlayerSet THEN "No sell selection found"
  ELSE IF st.phaseState.sell.playerSelections[action.playerId].committed
       THEN "Already committed"
  ELSE VALID

ValidateAction(st, action) ==
  CASE action.type = NULL -> "Action must have a type"
    [] action.type = "PLACE_BID" -> ValidateBid(st, action)
    [] action.type = "PASS" -> ValidatePass(st, action)
    [] action.type = "PROPOSE_TRADE" -> ValidateTradeProposal(st, action)
    [] action.type = "ACCEPT_TRADE" -> ValidateTradeAcceptance(st, action)
    [] action.type = "CANCEL_TRADE" -> ValidateTradeCancellation(st, action)
    [] action.type = "REVEAL_GOAL" -> ValidateGoalReveal(st, action)
    [] action.type = "EXECUTE_REWARD" -> ValidateRewardExecution(st, action)
    [] action.type = "SELECT_CARDS_TO_SELL" -> ValidateSellSelection(st, action)
    [] action.type = "COMMIT_SELL" -> ValidateSellCommit(st, action)
    [] OTHER -> VALID

(* ------------------------------ TurnSystem ----------------------------- *)

CanAdvancePhase(st) ==
  CASE st.currentPhase = PHASES.AUCTION -> IsAuctionComplete(st)
    [] st.currentPhase = PHASES.TRADING -> IsTimeExpired(st)
    [] st.currentPhase = PHASES.GOAL_RESOLUTION -> IsGoalResolutionComplete(st)
    [] st.currentPhase = PHASES.SELL -> AreAllCommitted(st)
    [] OTHER -> FALSE

PhaseSequence == <<PHASES.AUCTION, PHASES.TRADING, PHASES.GOAL_RESOLUTION, PHASES.SELL>>

(* A faulty successor: trading is skipped.                                 *)
GetNextPhaseSkipping(currentPhase) ==
  CASE currentPhase = PHASES.AUCTION -> PHASES.GOAL_RESOLUTION
    [] currentPhase = PHASES.TRADING -> PHASES.GOAL_RESOLUTION
    [] currentPhase = PHASES.GOAL_RESOLUTION -> PHASES.SELL
    [] OTHER -> NULL

GetNextPhase(currentPhase) ==
  LET currentIndex == IndexOf(PhaseSequence, currentPhase)
  IN IF currentIndex = 0 \/ currentIndex = Len(PhaseSequence) THEN NULL
     ELSE PhaseSequence[currentIndex + 1]

(* state.phaseState[phase] = null, indexed by the phase's name             *)
CleanupPhase(st, phase) ==
  IF phase # NULL THEN [st EXCEPT !.phaseState[phase] = NullRecord] ELSE st

InitializePhase(w, phase) ==
  CASE phase = PHASES.AUCTION -> InitializeAuction(w)
    [] phase = PHASES.TRADING -> InitializeTrading(w)
    [] phase = PHASES.GOAL_RESOLUTION -> InitializeGoalResolution(w)
    [] phase = PHASES.SELL -> InitializeSell(w)
    [] OTHER -> w

PhaseChanged(w1, fromPhase, phase) ==
  Emit(w1, [type |-> "PHASE_CHANGED", fromPhase |-> fromPhase, toPhase |-> phase,
            round |-> w1.state.currentRound])

TransitionToPhase(w, phase) ==
  PhaseChanged(InitializePhase(SetState(w, [CleanupPhase(w.state, w.state.currentPhase)
                                            EXCEPT !.currentPhase = phase]),
                               phase),
               w.state.currentPhase, phase)

(* players.map(...).sort((a, b) => b.wealth - a.wealth): a stable sort     *)
RECURSIVE InsertScore(_, _)
InsertScore(sorted, score) ==
  IF sorted = <<>> THEN <<score>>
  ELSE IF Head(sorted).wealth < score.wealth THEN <<score>> \o sorted
  ELSE <<Head(sorted)>> \o InsertScore(Tail(sorted), score)

RECURSIVE SortScores(_, _)
SortScores(sorted, rest) ==
  IF rest = <<>> THEN sorted ELSE SortScores(InsertScore(sorted, Head(rest)), Tail(rest))

(* A faulty ranking: the scores are left in seating order.                 *)
GetFinalScoresUnsorted(st) ==
  [i \in 1..NumPlayers |->
     [playerId |-> PlayerIds[i],
      wealth |-> CalculatePlayerWealth(st, PlayerIds[i]),
      cash |-> st.players[PlayerIds[i]].cash]]

GetFinalScores(st) ==
  SortScores(<<>>, [i \in 1..NumPlayers |->
                      [playerId |-> PlayerIds[i],
                       wealth |-> CalculatePlayerWealth(st, PlayerIds[i]),
                       cash |-> st.players[PlayerIds[i]].cash]])

EndGame(w) ==
  LET st1 == [w.state EXCEPT !.status = GAME_STATUS.COMPLETED]
      finalScores == GetFinalScores(st1)
  IN Emit(SetState(w, st1), [type |-> "GAME_ENDED", winner |-> finalScores[1],
                             finalScores |-> finalScores])

CompleteRound(w) ==
  IF w.state.currentRound < w.state.config.totalRounds
  THEN TransitionToPhase(SetState(w, AdvanceRound(w.state)), PHASES.AUCTION)
  ELSE EndGame(w)

AdvancePhase(w) ==
  Only({ IF nextPhase = NULL THEN CompleteRound(w) ELSE TransitionToPhase(w, nextPhase)
         : nextPhase \in {GetNextPhase(w.state.currentPhase)} })

ManuallyEndPhase(w) ==
  IF w.state.currentPhase = PHASES.TRADING THEN AdvancePhase(EndTrading(w)) ELSE w

(* ------------------------------ GameEngine ----------------------------- *)

(* The game configuration the engine is constructed with.                  *)
Config == DEFAULT_CONFIG

(* dealInitialCards: startingResourceCards cards per player from the top   *)
(* of the draw pile, then startingGoalCards goal cards per player.         *)
RECURSIVE DealResourceCards(_, _)
DealResourceCards(w, i) ==
  IF i > NumPlayers THEN w
  ELSE LET cards == Drawn(w.state, w.state.config.startingResourceCards)
           w1 == Draw(w, w.state.config.startingResourceCards)
       IN DealResourceCards(SetState(w1, AddCardsToHand(w1.state, PlayerIds[i], cards)), i + 1)

RECURSIVE DealGoalCards(_, _, _)
DealGoalCards(st, i, k) ==
  IF i > NumPlayers THEN st
  ELSE IF k > st.config.startingGoalCards THEN DealGoalCards(st, i + 1, 1)
  ELSE IF st.goalDeck.undealt = <<>> THEN DealGoalCards(st, i, k + 1)
  ELSE DealGoalCards([st EXCEPT !.goalDeck.undealt = Tail(@),
                                !.players[PlayerIds[i]].goalCards =
                                   Append(@, [id |-> Head(st.goalDeck.undealt),
                                              revealed |-> FALSE])],
                     i, k + 1)

DealInitialCards(w) ==
  LET w1 == DealResourceCards(w, 1)
  IN SetState(w1, DealGoalCards(w1.state, 1, 1))

(* initialize(players, resourceCards, goalCards); the two shuffles leave   *)
(* the piles in the orders deckOrder and goalOrder.                        *)
Initialize(deckOrder, goalOrder) ==
  LET st0 == CreateInitialState(Config)
      st1 == [st0 EXCEPT !.resourceDeck.drawPile = deckOrder,
                         !.goalDeck.undealt = goalOrder]
      w1 == Emit(Emit(World(st1), [type |-> "DECK_SHUFFLED", cardCount |-> Len(deckOrder)]),
                 [type |-> "DECK_SHUFFLED", cardCount |-> Len(goalOrder)])
  IN Emit(DealInitialCards(w1), [type |-> "GAME_INITIALIZED", playerCount |-> NumPlayers])

StartGame(w) ==
  IF w.state.status # GAME_STATUS.NOT_STARTED THEN Throw(w, "Game already started")
  ELSE TransitionToPhase(
         Emit(SetState(w, [w.state EXCEPT !.status = GAME_STATUS.IN_PROGRESS]),
              [type |-> "GAME_STARTED"]),
         PHASES.AUCTION)

DispatchAction(w, action, rnd) ==
  CASE action.type = "PLACE_BID" -> PlaceBid(w, action)
    [] action.type = "PASS" -> Pass(w, action)
    [] action.type = "PROPOSE_TRADE" -> ProposeTrade(w, action)
    [] action.type = "ACCEPT_TRADE" -> AcceptTrade(w, action)
    [] action.type = "CANCEL_TRADE" -> CancelTrade(w, action)
    [] action.type = "END_TRADING" -> ManuallyEndPhase(w)
    [] action.type = "REVEAL_GOAL" -> RevealGoal(w, action, rnd)
    [] action.type = "EXECUTE_REWARD" -> ExecutePendingReward(w, action, rnd)
    [] action.type = "SELECT_CARDS_TO_SELL" -> SelectCardsToSell(w, action)
    [] action.type = "COMMIT_SELL" -> CommitSell(w, action)
    [] OTHER -> Throw(w, "Unknown action type")

(* executeAction on an invalid action: ACTION_INVALID is emitted and the   *)
(* error thrown.                                                           *)
Rejected(w, action, validation) ==
  Throw(Emit(w, [type |-> "ACTION_INVALID", action |-> action.type, reason |-> validation]),
        validation)

(* executeAction after the dispatch: the phase advances when the turn      *)
(* system allows it; an exception of the dispatch leaves the call at once. *)
Dispatched(w1) ==
  IF w1.thrown # NULL THEN w1
  ELSE IF CanAdvancePhase(w1.state) THEN AdvancePhase(w1)
  ELSE w1

(* A faulty executeAction: the action is recorded before it is validated.  *)
ExecuteActionRecordingFirst(st, action, rnd) ==
  Only({ IF validation # VALID
         THEN Rejected(World(RecordAction(st, action)), action, validation)
         ELSE Dispatched(DispatchAction(World(RecordAction(st, action)), action, rnd))
         : validation \in {ValidateAction(st, action)} })

(* executeAction: validate, record, dispatch, then advance the phase when  *)
(* the turn system allows it.  rnd is the value Math.random() yields in    *)
(* this call.                                                              *)
ExecuteAction(st, action, rnd) ==
  Only({ IF validation # VALID
         THEN Rejected(World(st), action, validation)
         ELSE Dispatched(DispatchAction(World(RecordAction(st, action)), action, rnd))
         : validation \in {ValidateAction(st, action)} })

(* getVisibleState(playerId), on the engine's state st.                    *)
GetVisibleState(st, playerId) == FilterForPlayer(st, playerId)

(* ------------------------------- inputs -------------------------------- *)

(* Largest amount a PLACE_BID carries.                                     *)
MaxBid == 3

(* Number of values the random source can take in one call.                *)
RandomRange == 2

(* Numbers of recorded actions explored beyond an initial state: by the    *)
(* specification of all operations, and by that of each phase.             *)
MaxSteps == 2

AuctionSteps == 5

TradingSteps == 2

GoalSteps == 4

SellSteps == 4

PriceSteps == 3

UnknownPlayer == "px"

ActorIds == PlayerSet \cup {UnknownPlayer}

(* A bid of nothing, the two largest bids, and one beyond anyone's cash.   *)
BidAmounts == {0, MaxBid - 1, MaxBid, MaxBid + DEFAULT_CONFIG.startingCash}

RandomValues == 0..(RandomRange - 1)

(* Who is tried as the actor of an action of a phase: everybody during the *)
(* phase, one player outside it, where the phase check rejects the action. *)
ActorsIn(st, phase) == IF st.currentPhase = phase THEN ActorIds ELSE {PlayerIds[1]}

(* The values the random source may yield in a call: they matter in goal   *)
(* resolution only.                                                        *)
RandomIn(st) == IF st.currentPhase = PHASES.GOAL_RESOLUTION THEN RandomValues ELSE {0}

Side(cards, cash) == [cards |-> cards, cash |-> cash]

(* What a proposal may offer and request: a card for cash, a card for a   *)
(* card of a colour, cash for a card of a colour, a card and cash for a    *)
(* card of a colour.                                                       *)
Proposals ==
  {[offering |-> Side(<<1>>, 0), requesting |-> Side(<<>>, 3)],
   [offering |-> Side(<<3>>, 0), requesting |-> Side(<<Req("Blue", 1)>>, 0)],
   [offering |-> Side(<<>>, 3), requesting |-> Side(<<Req("Yellow", 1)>>, 0)],
   [offering |-> Side(<<5>>, 1), requesting |-> Side(<<Req("Yellow", 1)>>, 0)]}

OfferIdsOf(st) ==
  IF st.currentPhase = PHASES.TRADING
  THEN {st.phaseState.trading.activeOffers[i].offerId :
          i \in 1..Len(st.phaseState.trading.activeOffers)} \cup {0}
  ELSE {0}

Choices(target, color, direction, placement, cardId, newOrder, cardIdToGive) ==
  [targetPlayerId |-> target, color |-> color, direction |-> direction,
   placement |-> placement, cardId |-> cardId, newOrder |-> newOrder,
   cardIdToGive |-> cardIdToGive]

NoChoices == Choices(UNDEFINED, UNDEFINED, 0, UNDEFINED, 0, <<>>, 0)

(* Orders of at most two ids over the top three cards of the draw pile.    *)
NewOrders(st) ==
  LET top == SeqToSet(PeekTop(st, 3))
  IN {<<>>} \cup {<<a>> : a \in top} \cup {<<a, b>> : a \in top, b \in top}

(* Largest draw pile a deck manager is given on its own, and the most ids  *)
(* an order passed to rearrangeTop carries.                                *)
MaxPile == 4

MaxOrder == 3

RECURSIVE SeqsOver(_, _)
SeqsOver(ids, n) ==
  IF n = 0 THEN {<<>>}
  ELSE SeqsOver(ids, n - 1)
       \cup {Append(s, a) : s \in {t \in SeqsOver(ids, n - 1) : Len(t) = n - 1}, a \in ids}

(* Orders passed to rearrangeTop: every order of at most MaxOrder ids over *)
(* the first two cards and a card that is in no pile, and the top cards    *)
(* turned round.                                                           *)
OrdersOver(st) ==
  SeqsOver({1, 2, MaxPile + 1}, MaxOrder)
  \cup {[i \in 1..Len(PeekTop(st, MaxOrder)) |->
          PeekTop(st, MaxOrder)[Len(PeekTop(st, MaxOrder)) + 1 - i]]}

(* Engine calls explored from the last goal resolution of a game.          *)
EndSteps == 3

(* Most handlers subscribed at a time, and the engine calls explored with  *)
(* subscribers.                                                            *)
MaxHandlers == 3

BusSteps == 2

(* on() for the handlers from position i on: the kind of a handler is     *)
(* whether it throws and whether it was registered with once.              *)
RECURSIVE SubscribeAll(_, _, _, _)
SubscribeAll(ls, kinds, i, a) ==
  IF i > Len(kinds) THEN ls
  ELSE SubscribeAll(On(ls, IF i <= a THEN "BID_PLACED" ELSE "*",
                       Handler(i, kinds[i][1], kinds[i][2])),
                    kinds, i + 1, a)

(* The first card of a hand, 0 (no card's id) for an empty hand.           *)
FirstCard(hand) == IF hand = <<>> THEN 0 ELSE Head(hand)

LastCard(hand) == IF hand = <<>> THEN 0 ELSE hand[Len(hand)]

(* The kind of the reward that is waiting for choices, NULL if none is.    *)
PendingType(st) ==
  IF st.currentPhase = PHASES.GOAL_RESOLUTION
     /\ st.phaseState.goalResolution # NullRecord
     /\ st.phaseState.goalResolution.pendingRewardExecution # NullRecord
  THEN st.phaseState.goalResolution.pendingRewardExecution.rewardType
  ELSE NULL

(* The choices an EXECUTE_REWARD may carry: none at all, choices with      *)
(* every field missing, and values of the fields the pending reward reads. *)
ChoicesOf(st, playerId) ==
  LET hand == IF playerId \in PlayerSet THEN st.players[playerId].hand ELSE <<>>
      type == PendingType(st)
  IN {NullRecord, NoChoices}
     \cup (IF type \in {"steal_cash", "look_at_hand"}
           THEN {[NoChoices EXCEPT !.targetPlayerId = t] : t \in ActorIds \ {playerId}}
           ELSE {})
     \cup (IF type = "take_and_give_card"
           THEN {[NoChoices EXCEPT !.targetPlayerId = t, !.cardIdToGive = c] :
                   t \in ActorIds \ {playerId}, c \in {FirstCard(hand), NoCard}}
           ELSE {})
     \cup (IF type = "adjust_stock"
           THEN {[NoChoices EXCEPT !.color = c, !.direction = d] :
                   c \in {"Blue", "Purple"}, d \in {-9, -1, 1, 9}}
           ELSE {})
     \cup (IF type = "buy_with_discount"
           THEN {[NoChoices EXCEPT !.color = c] : c \in {"Blue", "Purple"}}
           ELSE {})
     \cup (IF type = "peek_and_place"
           THEN {[NoChoices EXCEPT !.placement = pl] : pl \in {"top", "bottom"}}
           ELSE {})
     \cup (IF type = "swap_with_deck"
           THEN {[NoChoices EXCEPT !.cardId = c] : c \in {FirstCard(hand), NoCard}}
           ELSE {})
     \cup (IF type = "rearrange_top_5"
           THEN {[NoChoices EXCEPT !.newOrder = o] : o \in NewOrders(st)}
           ELSE {})

(* Goal cards a REVEAL_GOAL may name: the player's own, the first card of  *)
(* every player, and one of nobody.                                        *)
GoalIdsOf(st, playerId) ==
  IF st.currentPhase = PHASES.GOAL_RESOLUTION /\ playerId \in PlayerSet
  THEN {st.players[playerId].goalCards[i].id : i \in 1..Len(st.players[playerId].goalCards)}
       \cup {st.players[q].goalCards[1].id : q \in PlayerSet}
       \cup {Len(GoalCards)}
  ELSE {Len(GoalCards)}

(* Selections a SELECT_CARDS_TO_SELL may carry: the whole hand, one card   *)
(* named twice, and a card nobody holds.                                   *)
SelectionsOf(st, playerId) ==
  LET hand == IF playerId \in PlayerSet THEN st.players[playerId].hand ELSE <<>>
  IN IF st.currentPhase = PHASES.SELL
     THEN {hand, <<LastCard(hand), LastCard(hand)>>, <<NoCard>>}
     ELSE {<<NoCard>>}

(* ---------------------------- canonical play --------------------------- *)
(* A fixed line of play, used to reach the states in which the             *)
(* specifications below start: everybody passes (the last seat takes each  *)
(* card for nothing), trading ends at once, each player reveals the first  *)
(* unrevealed goal card and supplies fixed choices for a pending reward,   *)
(* and everybody commits an empty sale.                                    *)

FirstUnrevealed(st, playerId) ==
  LET cards == st.players[playerId].goalCards
      hits == {i \in 1..Len(cards) : ~ cards[i].revealed}
  IN IF hits = {} THEN 0 ELSE cards[CHOOSE i \in hits : \A j \in hits : i <= j].id

FirstUncommitted(st) ==
  LET seats == {i \in 1..NumPlayers :
                  ~ st.phaseState.sell.playerSelections[PlayerIds[i]].committed}
  IN IF seats = {} THEN PlayerIds[1] ELSE PlayerIds[CHOOSE i \in seats : \A j \in seats : i <= j]

CanonicalChoices(st, playerId) ==
  [NoChoices EXCEPT !.targetPlayerId = IF playerId = PlayerIds[1] THEN PlayerIds[2]
                                       ELSE PlayerIds[1],
                    !.color = "Blue", !.direction = 1, !.placement = "bottom",
                    !.cardId = FirstCard(st.players[playerId].hand),
                    !.cardIdToGive = FirstCard(st.players[playerId].hand)]

CanonicalAction(st) ==
  CASE st.currentPhase = PHASES.AUCTION ->
         [type |-> "PASS", playerId |-> FirstActiveBidder(st.phaseState.auction)]
    [] st.currentPhase = PHASES.TRADING -> [type |-> "END_TRADING"]
    [] st.currentPhase = PHASES.GOAL_RESOLUTION ->
         LET gr == st.phaseState.goalResolution
         IN IF gr.pendingRewardExecution # NullRecord
            THEN [type |-> "EXECUTE_REWARD", playerId |-> gr.pendingRewardExecution.playerId,
                  choices |-> CanonicalChoices(st, gr.pendingRewardExecution.playerId)]
            ELSE [type |-> "REVEAL_GOAL", playerId |-> TurnOrderAt(gr.currentPlayerIndex),
                  goalCardId |-> FirstUnrevealed(st, TurnOrderAt(gr.currentPlayerIndex))]
    [] OTHER -> [type |-> "COMMIT_SELL", playerId |-> FirstUncommitted(st)]

(* The state after n canonical actions.                                    *)
RECURSIVE Play(_, _)
Play(st, n) ==
  IF n = 0 THEN st ELSE Play(ExecuteAction(st, CanonicalAction(st), 0).state, n - 1)

(* Canonical play up to the first state in the given round and phase, or   *)
(* to the end of the game.                                                 *)
RECURSIVE PlayTo(_, _, _, _)
PlayTo(st, round, phase, fuel) ==
  IF \/ st.currentRound = round /\ st.currentPhase = phase
     \/ st.status = GAME_STATUS.COMPLETED
     \/ fuel = 0
  THEN st
  ELSE PlayTo(ExecuteAction(st, CanonicalAction(st), 0).state, round, phase, fuel - 1)

(* ---------------------------- specifications --------------------------- *)

(* The orders in which the two shuffles of initialize() leave the piles.   *)
DeckOrders == {[i \in 1..Len(DeckColors) |-> i]}

GoalOrders == {[i \in 1..Len(GoalCards) |-> i]}

Constructed(deckOrder, goalOrder) == Initialize(deckOrder, goalOrder)

Started(deckOrder, goalOrder) == StartGame(Constructed(deckOrder, goalOrder)).state

NoOutcome == [kind |-> "none", type |-> NULL, error |-> NULL]

(* The result of one engine call: what it left in the state, the events it *)
(* emitted, and whether it returned, was rejected by validation, or threw  *)
(* after validation.                                                       *)
OutcomeOf(w, type, rejected) ==
  [kind |-> IF w.thrown = NULL THEN "ok" ELSE IF rejected THEN "rejected" ELSE "threw",
   type |-> type, error |-> w.thrown]

(* The state after construction: initialize() has run, start() has not.    *)
InitConstructed(steps) ==
  \E d \in DeckOrders, g \in GoalOrders :
    \E w \in {Constructed(d, g)} :
      /\ state = w.state
      /\ emitted = w.emitted
      /\ outcome = NoOutcome
      /\ limit = steps
      /\ listeners = NoListeners
      /\ received = <<>>

(* The state after the actions of a sequence, each with the random source  *)
(* yielding 0.                                                             *)
RECURSIVE Perform(_, _)
Perform(st, actions) ==
  IF actions = <<>> THEN st
  ELSE Perform(ExecuteAction(st, Head(actions), 0).state, Tail(actions))

(* A game that canonical play has brought to the start of a phase and a    *)
(* number of actions beyond it, and in which the given actions were then   *)
(* performed.                                                              *)
InitAt(round, phase, played, actions, steps) ==
  \E d \in DeckOrders, g \in GoalOrders :
    /\ state = Perform(Play(PlayTo(Started(d, g), round, phase, 200), played), actions)
    /\ emitted = <<>>
    /\ outcome = NoOutcome
    /\ limit = Len(state.history) + steps
    /\ listeners = NoListeners
    /\ received = <<>>

(* The first auction at its first and at its last card.                    *)
InitFirstCard(steps) == InitAt(1, PHASES.AUCTION, 0, <<>>, steps)

InitLastCard(steps) == InitAt(1, PHASES.AUCTION, 2 * (NumPlayers + 1), <<>>, steps)

(* Trading, in the second round, at its start, and with three offers      *)
(* open: two of the first player that offer the same card, and one of the  *)
(* second player that offers cash.                                         *)
InitNoOffers(steps) == InitAt(2, PHASES.TRADING, 0, <<>>, steps)

InitOpenOffers(steps) ==
  InitAt(2, PHASES.TRADING, 0,
         <<[type |-> "PROPOSE_TRADE", playerId |-> PlayerIds[1],
            offering |-> Side(<<1>>, 0), requesting |-> Side(<<>>, 3)],
           [type |-> "PROPOSE_TRADE", playerId |-> PlayerIds[1],
            offering |-> Side(<<1>>, 0), requesting |-> Side(<<Req("Yellow", 1)>>, 0)],
           [type |-> "PROPOSE_TRADE", playerId |-> PlayerIds[2],
            offering |-> Side(<<>>, 3), requesting |-> Side(<<Req("Yellow", 1)>>, 0)]>>,
         steps)

(* The first goal resolution at its start and at its last player's turn.   *)
InitFirstReveal(steps) == InitAt(1, PHASES.GOAL_RESOLUTION, 0, <<>>, steps)

InitLastReveal(steps) == InitAt(1, PHASES.GOAL_RESOLUTION, 3, <<>>, steps)

(* The first sell phase at its start and with one player left to commit,   *)
(* and the last sell phase with one player left to commit.                 *)
InitFirstCommit(steps) == InitAt(1, PHASES.SELL, 0, <<>>, steps)

InitLastCommit(steps) == InitAt(1, PHASES.SELL, NumPlayers - 1, <<>>, steps)

InitFinalCommit(steps) ==
  InitAt(DEFAULT_CONFIG.totalRounds, PHASES.SELL, NumPlayers - 1, <<>>, steps)

(* The first sell phase at its start, after a goal resolution in which the *)
(* third player has earned a sell bonus and the first player cash.         *)
InitBonusSell(steps) ==
  InitAt(1, PHASES.GOAL_RESOLUTION, 0,
         <<[type |-> "REVEAL_GOAL", playerId |-> PlayerIds[1], goalCardId |-> 1],
           [type |-> "REVEAL_GOAL", playerId |-> PlayerIds[2], goalCardId |-> 4],
           [type |-> "EXECUTE_REWARD", playerId |-> PlayerIds[2], choices |-> NoChoices],
           [type |-> "REVEAL_GOAL", playerId |-> PlayerIds[3], goalCardId |-> 8]>>,
         steps)

Init ==
  \/ InitConstructed(MaxSteps)
  \/ InitLastCard(MaxSteps)
  \/ InitAt(1, PHASES.TRADING, 0, <<>>, MaxSteps)
  \/ InitLastReveal(MaxSteps)
  \/ InitLastCommit(MaxSteps)
  \/ InitFinalCommit(MaxSteps)

InitAuction == InitFirstCard(AuctionSteps) \/ InitLastCard(AuctionSteps)

InitTrading == InitNoOffers(TradingSteps) \/ InitOpenOffers(TradingSteps)

InitGoal == InitFirstReveal(GoalSteps)

(* Price limits the engine may be constructed with: a floor of 0 or 3, no  *)
(* ceiling or a ceiling of 5, around the starting price.                   *)
Floors == {DEFAULT_CONFIG.minStockPrice, DEFAULT_CONFIG.startingStockPrice - 1}

Ceilings == {DEFAULT_CONFIG.maxStockPrice, DEFAULT_CONFIG.startingStockPrice + 1}

(* The first goal resolution at its start, in a game constructed with the  *)
(* given price limits (no price has changed before the first reveal), in   *)
(* whose trading the first player has bought two Blue cards from the third *)
(* player and so holds three.                                              *)
InitMarket(steps) ==
  \E d \in DeckOrders, g \in GoalOrders, floor \in Floors, ceiling \in Ceilings :
    /\ state = [Perform(PlayTo(Started(d, g), 1, PHASES.TRADING, 200),
                        <<[type |-> "PROPOSE_TRADE", playerId |-> PlayerIds[1],
                           offering |-> Side(<<>>, 1),
                           requesting |-> Side(<<Req("Blue", 2)>>, 0)],
                          [type |-> "ACCEPT_TRADE", playerId |-> PlayerIds[3],
                           offerId |-> 101],
                          [type |-> "END_TRADING"]>>)
                  EXCEPT !.config.minStockPrice = floor, !.config.maxStockPrice = ceiling]
    /\ emitted = <<>>
    /\ outcome = NoOutcome
    /\ limit = Len(state.history) + steps
    /\ listeners = NoListeners
    /\ received = <<>>

InitPrices == InitMarket(PriceSteps)

InitSell == InitBonusSell(SellSteps)

(* A deck manager on a deck of its own: the draw pile holds the first      *)
(* cards of the deck, none up to MaxPile of them.                          *)
InitDeck ==
  \E n \in 0..MaxPile :
    /\ state = [CreateInitialState(DEFAULT_CONFIG) EXCEPT
                  !.resourceDeck.drawPile = [i \in 1..n |-> i]]
    /\ emitted = <<>>
    /\ outcome = NoOutcome
    /\ limit = 0
    /\ listeners = NoListeners
    /\ received = <<>>

(* The events of a call reach the subscribers.                             *)
Delivered(events) ==
  \E d \in {EmitAll(listeners, <<>>, events)} :
    /\ listeners' = d.listeners
    /\ received' = d.received

(* The engine at the start of its first auction, with handlers subscribed  *)
(* to the bids and to every event: at most MaxHandlers of them, of every   *)
(* kind, the first a of them to the bids.                                  *)
InitBus ==
  \E d \in DeckOrders, g \in GoalOrders :
    \E kinds \in SeqsOver(BOOLEAN \X BOOLEAN, MaxHandlers) :
      \E a \in 0..Len(kinds) :
        /\ state = Started(d, g)
        /\ emitted = <<>>
        /\ outcome = NoOutcome
        /\ limit = Len(state.history) + BusSteps
        /\ listeners = SubscribeAll(NoListeners, kinds, 1, a)
        /\ received = <<>>

(* The goal resolution of the last round at its start: after canonical    *)
(* play, and after a game in whose first goal resolution the first player  *)
(* revealed a second goal card while the reward of the first was pending.  *)
InitLastGoals(steps) == InitAt(DEFAULT_CONFIG.totalRounds, PHASES.GOAL_RESOLUTION, 0, <<>>, steps)

InitSpentGoals(steps) ==
  \E d \in DeckOrders, g \in GoalOrders :
    /\ state = PlayTo(Perform(PlayTo(Started(d, g), 1, PHASES.GOAL_RESOLUTION, 200),
                              <<[type |-> "REVEAL_GOAL", playerId |-> PlayerIds[1],
                                 goalCardId |-> 2],
                                [type |-> "REVEAL_GOAL", playerId |-> PlayerIds[1],
                                 goalCardId |-> 3]>>),
                      DEFAULT_CONFIG.totalRounds, PHASES.GOAL_RESOLUTION, 200)
    /\ emitted = <<>>
    /\ outcome = NoOutcome
    /\ limit = Len(state.history) + steps
    /\ listeners = NoListeners
    /\ received = <<>>

InitEnd == InitLastGoals(EndSteps) \/ InitSpentGoals(EndSteps)

(* engine.start()                                                          *)
Start ==
  \E w \in {StartGame(World(state))} :
    /\ state' = w.state
    /\ emitted' = w.emitted
    /\ outcome' = OutcomeOf(w, "start", FALSE)
    /\ Delivered(w.emitted)
    /\ UNCHANGED limit

(* engine.executeAction(action), with rnd what Math.random() yields.       *)
Call(action, rnd) ==
  \E w \in {ExecuteAction(state, action, rnd)} :
    /\ Len(w.state.history) <= limit
    /\ state' = w.state
    /\ emitted' = w.emitted
    /\ outcome' = OutcomeOf(w, action.type, ValidateAction(state, action) # VALID)
    /\ Delivered(w.emitted)
    /\ UNCHANGED limit

DoPlaceBid ==
  \E p \in ActorsIn(state, PHASES.AUCTION) :
    \E amount \in IF state.currentPhase = PHASES.AUCTION THEN BidAmounts ELSE {MaxBid} :
    Call([type |-> "PLACE_BID", playerId |-> p, amount |-> amount], 0)

DoPass == \E p \in ActorsIn(state, PHASES.AUCTION) : Call([type |-> "PASS", playerId |-> p], 0)

DoProposeTrade ==
  \E p \in ActorsIn(state, PHASES.TRADING) :
    \E proposal \in IF state.currentPhase = PHASES.TRADING THEN Proposals
                     ELSE {[offering |-> Side(<<>>, 1), requesting |-> Side(<<>>, 1)]} :
      Call([type |-> "PROPOSE_TRADE", playerId |-> p, offering |-> proposal.offering,
            requesting |-> proposal.requesting], 0)

DoAcceptTrade ==
  \E p \in ActorsIn(state, PHASES.TRADING), o \in OfferIdsOf(state) :
    Call([type |-> "ACCEPT_TRADE", playerId |-> p, offerId |-> o], 0)

DoCancelTrade ==
  \E p \in ActorsIn(state, PHASES.TRADING), o \in OfferIdsOf(state) :
    Call([type |-> "CANCEL_TRADE", playerId |-> p, offerId |-> o], 0)

DoEndTrading == \E rnd \in RandomIn(state) : Call([type |-> "END_TRADING"], rnd)

DoRevealGoal ==
  \E p \in ActorsIn(state, PHASES.GOAL_RESOLUTION), rnd \in RandomIn(state) :
    \E g \in GoalIdsOf(state, p) :
    Call([type |-> "REVEAL_GOAL", playerId |-> p, goalCardId |-> g], rnd)

DoExecuteReward ==
  \E p \in ActorsIn(state, PHASES.GOAL_RESOLUTION), rnd \in RandomIn(state) :
    \E choices \in ChoicesOf(state, p) :
      Call([type |-> "EXECUTE_REWARD", playerId |-> p, choices |-> choices], rnd)

DoSelectCardsToSell ==
  \E p \in ActorsIn(state, PHASES.SELL) :
    \E cardIds \in SelectionsOf(state, p) :
      Call([type |-> "SELECT_CARDS_TO_SELL", playerId |-> p, cardIds |-> cardIds], 0)

DoCommitSell == \E p \in ActorsIn(state, PHASES.SELL) : Call([type |-> "COMMIT_SELL", playerId |-> p], 0)

(* An action of a kind the engine does not know, or of no kind at all.     *)
DoUnknown == \E rnd \in RandomIn(state), type \in {"SHUFFLE", NULL} : Call([type |-> type], rnd)

(* deckManager.rearrangeTop(state.resourceDeck, newOrder): the outcome     *)
(* keeps the order that was passed.                                        *)
DoRearrangeTop ==
  \E newOrder \in OrdersOver(state) :
    /\ state' = IF RearrangeTopThrows(state, newOrder) THEN state
                ELSE RearrangeTop(state, newOrder)
    /\ emitted' = <<>>
    /\ outcome' = [kind |-> IF RearrangeTopThrows(state, newOrder) THEN "threw" ELSE "ok",
                   type |-> "rearrangeTop",
                   error |-> IF ~ RearrangeTopThrows(state, newOrder) THEN NULL
                             ELSE IF Len(PeekTop(state, Len(newOrder))) # Len(newOrder)
                                  THEN "Cannot rearrange"
                             ELSE "Card ID not found",
                   newOrder |-> newOrder]
    /\ UNCHANGED <<limit, listeners, received>>

Next ==
  \/ Start
  \/ DoPlaceBid
  \/ DoPass
  \/ DoProposeTrade
  \/ DoAcceptTrade
  \/ DoCancelTrade
  \/ DoEndTrading
  \/ DoRevealGoal
  \/ DoExecuteReward
  \/ DoSelectCardsToSell
  \/ DoCommitSell
  \/ DoUnknown

NextAuction == DoPlaceBid \/ DoPass

NextTrading == DoProposeTrade \/ DoAcceptTrade \/ DoCancelTrade \/ DoEndTrading

NextGoal == DoRevealGoal \/ DoExecuteReward

NextSell == DoSelectCardsToSell \/ DoCommitSell

NextDeck == DoRearrangeTop

NextBus == DoPlaceBid \/ DoPass

NextEnd == DoRevealGoal \/ DoExecuteReward \/ DoUnknown

(* Every operation, a few steps from construction and from the start of    *)
(* each phase.                                                             *)
Spec == Init /\ [][Next]_vars

(* Each phase in depth, under the operations of that phase.                *)
SpecAuction == InitAuction /\ [][NextAuction]_vars

SpecTrading == InitTrading /\ [][NextTrading]_vars

SpecGoal == InitGoal /\ [][NextGoal]_vars

SpecSell == InitSell /\ [][NextSell]_vars

(* Goal resolution under configured price limits.                          *)
SpecPrices == InitPrices /\ [][NextGoal]_vars

(* An auction with subscribers coming in.                                  *)
SpecBus == InitBus /\ [][NextBus]_vars

(* The last goal resolution of a game.                                     *)
SpecEnd == InitEnd /\ [][NextEnd]_vars

(* The deck manager alone, rearranging a pile again and again.             *)
SpecDeck == InitDeck /\ [][NextDeck]_vars

(* ------------------------------ properties ----------------------------- *)

CountColor(cards, color) == Cardinality({i \in 1..Len(cards) : ColorOf(cards[i]) = color})

HeldCount(st, color) ==
  SumSeq([i \in 1..NumPlayers |-> CountColor(st.players[PlayerIds[i]].hand, color)])
  + CountColor(st.resourceDeck.drawPile, color)
  + CountColor(st.resourceDeck.discardPile, color)

EventsOf(events, type) == SelectSeq(events, LAMBDA e : e.type = type)

LastAction(st) == st.history[Len(st.history)].action

(* The step records an action: validation accepted it.                     *)
Recorded == Len(state'.history) = Len(state.history) + 1

OthersUntouched(players) ==
  \A q \in PlayerSet \ players :
    /\ state'.players[q].cash = state.players[q].cash
    /\ state'.players[q].hand = state.players[q].hand

(* C1: in every reachable state, for each colour, the cards of that colour *)
(* in the players' hands, the draw pile and the discard pile number as     *)
(* many as in the starting deck.                                           *)
C1_Conservation == \A color \in ColorSet : HeldCount(state, color) = StartingCount(color)

(* C2: a call the validator rejects fails with the reason, emits exactly   *)
(* one ACTION_INVALID carrying that reason, and leaves the whole game      *)
(* state as it was.                                                        *)
C2_RejectionChangesNothing ==
  [][outcome'.kind = "rejected" =>
       /\ state' = state
       /\ outcome'.error # NULL
       /\ Len(emitted') = 1
       /\ emitted'[1].type = "ACTION_INVALID"
       /\ emitted'[1].reason = outcome'.error]_vars

C2_Witness ==
  /\ outcome.kind = "rejected"
  /\ outcome.type = "ACCEPT_TRADE"
  /\ state.currentPhase = PHASES.TRADING
  /\ state.phaseState.trading.activeOffers # <<>>

PhasePairs ==
  {<<NULL, PHASES.AUCTION>>, <<PHASES.AUCTION, PHASES.TRADING>>,
   <<PHASES.TRADING, PHASES.GOAL_RESOLUTION>>, <<PHASES.GOAL_RESOLUTION, PHASES.SELL>>,
   <<PHASES.SELL, PHASES.AUCTION>>}

(* C3: the phase changes only along auction, trading, goal_resolution,     *)
(* sell, auction (from none to auction at start); a call emits a           *)
(* PHASE_CHANGED exactly when it changes the phase, and the event names    *)
(* the phase left and the phase entered; the round grows by one exactly on *)
(* the step from sell to auction.                                          *)
C3_PhaseOrder ==
  [][LET changes == EventsOf(emitted', "PHASE_CHANGED")
     IN IF state'.currentPhase # state.currentPhase
        THEN /\ <<state.currentPhase, state'.currentPhase>> \in PhasePairs
             /\ Len(changes) = 1
             /\ changes[1].fromPhase = state.currentPhase
             /\ changes[1].toPhase = state'.currentPhase
             /\ changes[1].round = state'.currentRound
             /\ state'.currentRound = IF state.currentPhase = PHASES.SELL
                                       THEN state.currentRound + 1
                                       ELSE state.currentRound
        ELSE /\ changes = <<>>
             /\ state'.currentRound = state.currentRound]_vars

C3_Witness ==
  /\ state.currentRound = 2
  /\ state.currentPhase = PHASES.AUCTION
  /\ EventsOf(emitted, "PHASE_CHANGED")
       = <<[type |-> "PHASE_CHANGED", fromPhase |-> PHASES.SELL, toPhase |-> PHASES.AUCTION,
            round |-> 2]>>

(* The step resolves the card that is up for auction.                      *)
CardResolved ==
  /\ state.currentPhase = PHASES.AUCTION
  /\ \/ state'.currentPhase # PHASES.AUCTION
     \/ state'.phaseState.auction.currentCardIndex # state.phaseState.auction.currentCardIndex

(* C4: whenever a card is won, the winner had at least the winning bid,    *)
(* pays exactly that bid and gets the card appended to the hand, and no    *)
(* other player's cash or hand changes.                                    *)
C4_AuctionPayment ==
  [][CardResolved =>
       LET bid == state.phaseState.auction.currentBid
           card == state.phaseState.auction.currentCard
       IN \E winner \in PlayerSet :
            /\ state.players[winner].cash >= bid
            /\ state'.players[winner].cash = state.players[winner].cash - bid
            /\ state'.players[winner].hand = Append(state.players[winner].hand, card)
            /\ OthersUntouched({winner})]_vars

(* p1 bids 2, p2 bids 3, p3 passes, p1 passes: p2 has the card for 3.      *)
C4_Witness ==
  /\ Len(state.history) = 4
  /\ state.history[1].action = [type |-> "PLACE_BID", playerId |-> "p1", amount |-> 2]
  /\ state.history[2].action = [type |-> "PLACE_BID", playerId |-> "p2", amount |-> 3]
  /\ state.history[3].action = [type |-> "PASS", playerId |-> "p3"]
  /\ state.history[4].action = [type |-> "PASS", playerId |-> "p1"]
  /\ state.players["p2"].cash = 2
  /\ state.players["p2"].hand = <<3, 4, 7>>
  /\ state.players["p1"].cash = 5
  /\ state.players["p3"].cash = 5

(* C5: when a validated pass leaves exactly one active bidder, that bidder *)
(* receives the card at the current bid, and no player who has passed on   *)
(* the card receives it.                                                   *)
C5_LastBidderStandingWins ==
  [][(state.currentPhase = PHASES.AUCTION /\ Recorded /\ LastAction(state').type = "PASS") =>
       LET auction == state.phaseState.auction
           remaining == auction.activeBidders \ {LastAction(state').playerId}
       IN /\ Cardinality(remaining) = 1 =>
               \A r \in remaining :
                 /\ state'.players[r].hand = Append(state.players[r].hand, auction.currentCard)
                 /\ state'.players[r].cash = state.players[r].cash - auction.currentBid
          /\ \A q \in PlayerSet \ remaining :
               state'.players[q].hand = state.players[q].hand]_vars

TotalCash(st) == SumSeq([i \in 1..NumPlayers |-> st.players[PlayerIds[i]].cash])

(* What is left of the bidding on a card: every pass lowers the number of  *)
(* active bidders, every bid raises the current bid, which no bidder's     *)
(* cash lets exceed the cash in the game.                                  *)
AuctionRank(st) ==
  Cardinality(st.phaseState.auction.activeBidders) * (TotalCash(st) + 1)
  + (TotalCash(st) - st.phaseState.auction.currentBid)

(* C6: while the auction runs a card is open, with two or more active      *)
(* bidders, so that a pass is acceptable; every accepted bid or pass       *)
(* either resolves the card or lowers a rank that is never negative, so no *)
(* card is bid on for ever; and resolving the last card of the queue ends  *)
(* the auction phase.                                                      *)
C6_AuctionTerminates ==
  /\ [](state.currentPhase = PHASES.AUCTION =>
          /\ state.phaseState.auction.currentCardIndex
               < Len(state.phaseState.auction.cardsToAuction)
          /\ Cardinality(state.phaseState.auction.activeBidders) >= 2
          /\ AuctionRank(state) >= 0
          /\ \E p \in PlayerSet : ValidatePass(state, [type |-> "PASS", playerId |-> p]) = VALID)
  /\ [][(state.currentPhase = PHASES.AUCTION /\ Recorded) =>
          /\ CardResolved \/ AuctionRank(state') < AuctionRank(state)
          /\ (CardResolved /\ state.phaseState.auction.currentCardIndex + 1
                                = Len(state.phaseState.auction.cardsToAuction))
               => state'.currentPhase = PHASES.TRADING]_vars

(* The last card of the queue went after a bid, and trading has begun.     *)
C6_Witness ==
  /\ state.currentPhase = PHASES.TRADING
  /\ outcome.type = "PASS"
  /\ \E i \in 1..Len(state.history) :
       /\ state.history[i].action.type = "PLACE_BID"
       /\ i > 2 * (NumPlayers + 1)

(* C7: an accepted trade leaves the summed wealth (cash plus cards at the  *)
(* current prices) of the proposer and the acceptor as it was, and changes *)
(* no third player's cash or hand.                                         *)
C7_TradeAtomicity ==
  [][(state.currentPhase = PHASES.TRADING /\ Recorded
      /\ LastAction(state').type = "ACCEPT_TRADE") =>
       LET acceptor == LastAction(state').playerId
           offer == state.phaseState.trading.activeOffers[
                      FindOffer(state, LastAction(state').offerId)]
           proposer == offer.offeringPlayer
       IN /\ CalculatePlayerWealth(state', proposer) + CalculatePlayerWealth(state', acceptor)
               = CalculatePlayerWealth(state, proposer) + CalculatePlayerWealth(state, acceptor)
          /\ OthersUntouched({proposer, acceptor})]_vars

(* A trade has gone through at prices that differ between the colours.     *)
C7_Witness ==
  /\ state.currentPhase = PHASES.TRADING
  /\ outcome.type = "ACCEPT_TRADE"
  /\ EventsOf(emitted, "TRADE_COMPLETED") # <<>>
  /\ \E c1, c2 \in ColorSet : state.stockPrices[c1] # state.stockPrices[c2]
  /\ \E p \in PlayerSet : Len(state.players[p].hand) = 1

(* C8: during trading every active offer can be fulfilled by its proposer: *)
(* the proposer holds each offered card and at least the offered cash.     *)
C8_NoDoubleSpending ==
  state.currentPhase = PHASES.TRADING =>
    \A i \in 1..Len(state.phaseState.trading.activeOffers) :
      LET offer == state.phaseState.trading.activeOffers[i]
      IN offer.status = OFFER_STATUS.ACTIVE =>
           /\ \A k \in 1..Len(offer.offering.cards) :
                Contains(state.players[offer.offeringPlayer].hand, offer.offering.cards[k])
           /\ state.players[offer.offeringPlayer].cash >= offer.offering.cash

(* An accept has cancelled another offer that could no longer be met.      *)
C8_Witness ==
  /\ state.currentPhase = PHASES.TRADING
  /\ outcome.type = "ACCEPT_TRADE"
  /\ \E i \in 1..Len(emitted) :
       /\ emitted[i].type = "TRADE_CANCELLED"
       /\ emitted[i].reason = "auto_cancel_insufficient_resources"

(* C9: during goal resolution the turn pointer moves only in a step that   *)
(* leaves no reward pending: it stays while a reward waits for choices.    *)
C9_TurnDiscipline ==
  [][(state.currentPhase = PHASES.GOAL_RESOLUTION
      /\ state'.phaseState.goalResolution.currentPlayerIndex
           # state.phaseState.goalResolution.currentPlayerIndex) =>
       state'.phaseState.goalResolution.pendingRewardExecution = NullRecord]_vars

Revealers(st) ==
  [i \in 1..Len(st.phaseState.goalResolution.revealedGoals) |->
     st.phaseState.goalResolution.revealedGoals[i].playerId]

(* C10: when goal resolution completes, the players who revealed a card in *)
(* it are, in order, exactly the players in turn order, each once.         *)
C10_OneRevealEach ==
  [][(state.currentPhase = PHASES.GOAL_RESOLUTION /\ state'.currentPhase = PHASES.SELL) =>
       Revealers(state') = PlayerIds]_vars

(* The pending-reward marker of goal resolution, NullRecord if none is set. *)
PendingReward(st) ==
  IF st.phaseState.goalResolution = NullRecord THEN NullRecord
  ELSE st.phaseState.goalResolution.pendingRewardExecution

(* The step is an accepted action of the given kind.                       *)
Accepted(type) == Recorded /\ LastAction(state').type = type

(* C11: an accepted reveal of a met goal whose reward needs a target or a  *)
(* choice records a pending-reward marker for the revealing player; while  *)
(* the marker is set the phase stays goal resolution; and the marker       *)
(* changes only in an accepted EXECUTE_REWARD of the marker's player that  *)
(* carries choices.                                                        *)
C11_RewardSuspension ==
  [][state.currentPhase = PHASES.GOAL_RESOLUTION =>
       /\ (Accepted("REVEAL_GOAL")
           /\ CheckGoal(GoalCards[LastAction(state').goalCardId].goal,
                        state.players[LastAction(state').playerId].hand)
           /\ RewardNeedsInput(GoalCards[LastAction(state').goalCardId].reward, NullRecord))
          => /\ PendingReward(state') # NullRecord
             /\ PendingReward(state').playerId = LastAction(state').playerId
       /\ PendingReward(state) # NullRecord
          => /\ state'.currentPhase = PHASES.GOAL_RESOLUTION
             /\ PendingReward(state') # PendingReward(state)
                => /\ Accepted("EXECUTE_REWARD")
                   /\ LastAction(state').playerId = PendingReward(state).playerId
                   /\ LastAction(state').choices # NullRecord]_vars

Committed(st, playerId) == st.phaseState.sell.playerSelections[playerId].committed

(* The step is the accepted commit of the last player still to commit.     *)
LastCommit ==
  /\ Accepted("COMMIT_SELL")
  /\ \A q \in PlayerSet \ {LastAction(state').playerId} : Committed(state, q)

(* The sells were executed in the step.                                    *)
SellsExecuted == EventsOf(emitted', "SELLS_REVEALED") # <<>>

(* C12: in a sell phase still waiting for commits, a step other than the   *)
(* last commit leaves every player's cash, hand and sell bonus and both    *)
(* deck piles as they were and stays in the sell phase; the last commit    *)
(* executes the sells and completes the phase; and no commit of a player   *)
(* who has already committed is accepted.                                  *)
C12_SellSimultaneity ==
  [][(state.currentPhase = PHASES.SELL /\ ~ state.phaseState.sell.allCommitted) =>
       /\ Accepted("COMMIT_SELL") => ~ Committed(state, LastAction(state').playerId)
       /\ IF LastCommit
          THEN SellsExecuted /\ state'.currentPhase # PHASES.SELL
          ELSE /\ state'.players = state.players
               /\ state'.resourceDeck = state.resourceDeck
               /\ state'.currentPhase = PHASES.SELL
               /\ ~ SellsExecuted]_vars

(* The last commit has just paid a player who had selected cards.          *)
C12_Witness ==
  /\ outcome.type = "COMMIT_SELL"
  /\ \E i \in 1..Len(emitted) :
       /\ emitted[i].type = "SELLS_REVEALED"
       /\ \E k \in 1..Len(emitted[i].sales) : emitted[i].sales[k].earnings > 0

CardsToSell(st, playerId) == st.phaseState.sell.playerSelections[playerId].cardsToSell

(* C13: in a sell phase still waiting for commits, an accepted selection   *)
(* of a player who has not committed replaces that player's selection, and *)
(* no step changes the selection of a player who has committed.            *)
C13_SelectionFrozen ==
  [][(/\ state.currentPhase = PHASES.SELL
      /\ ~ state.phaseState.sell.allCommitted
      /\ state'.currentPhase = PHASES.SELL) =>
       \A p \in PlayerSet :
         IF Committed(state, p)
         THEN CardsToSell(state', p) = CardsToSell(state, p)
         ELSE (Accepted("SELECT_CARDS_TO_SELL") /\ LastAction(state').playerId = p)
                => CardsToSell(state', p) = LastAction(state').cardIds]_vars

(* The cards a player's selection names.                                   *)
SoldSet(st, playerId) == SeqToSet(CardsToSell(st, playerId))

(* What the selection is worth: for each selected card, the price of its   *)
(* colour plus the player's sell bonus.                                    *)
Payout(st, playerId) ==
  LET hand == st.players[playerId].hand
  IN SumSeq([i \in 1..Len(hand) |->
               IF hand[i] \in SoldSet(st, playerId)
               THEN st.stockPrices[ColorOf(hand[i])] + st.players[playerId].sellBonus
               ELSE 0])

AllSold(st) == UNION {SoldSet(st, p) : p \in PlayerSet}

(* C14: in the step that executes the sells, every player's cash grows by  *)
(* the worth of the selection, the selected cards leave the hand, the      *)
(* other cards stay in it in their order, the sell bonus becomes 0, and    *)
(* the discard pile grows by exactly the cards sold.                       *)
C14_SellPayout ==
  [][(state.currentPhase = PHASES.SELL /\ SellsExecuted) =>
       /\ \A p \in PlayerSet :
            /\ state'.players[p].cash = state.players[p].cash + Payout(state, p)
            /\ state'.players[p].hand =
                 SelectSeq(state.players[p].hand, LAMBDA c : c \notin SoldSet(state, p))
            /\ state'.players[p].sellBonus = 0
       /\ SeqToSet(state'.resourceDeck.discardPile)
            = SeqToSet(state.resourceDeck.discardPile) \cup AllSold(state)
       /\ Len(state'.resourceDeck.discardPile)
            = Len(state.resourceDeck.discardPile) + Cardinality(AllSold(state))]_vars

(* The sells have just paid a player with a sell bonus who sold some but   *)
(* not all cards, and a player who sold nothing.                           *)
C14_Witness ==
  /\ outcome.type = "COMMIT_SELL"
  /\ \E i \in 1..Len(emitted) :
       /\ emitted[i].type = "SELLS_REVEALED"
       /\ emitted[i].sales[3].cards # <<>>
       /\ emitted[i].sales[3].earnings
            > SumSeq([k \in 1..Len(emitted[i].sales[3].cards) |->
                        state.stockPrices[ColorOf(emitted[i].sales[3].cards[k])]])
       /\ state.players[PlayerIds[3]].hand # <<>>
       /\ emitted[i].sales[2].earnings = 0

GameEnded(events) == EventsOf(events, "GAME_ENDED")

(* C15: a step emits GAME_ENDED at most once, and exactly when it takes    *)
(* the status to completed, which only the step completing the sell phase  *)
(* of the last round does; once the status is completed no step changes    *)
(* the state or emits GAME_ENDED.                                          *)
C15_GameEndTerminal ==
  [][IF state.status = GAME_STATUS.COMPLETED
     THEN state' = state /\ GameEnded(emitted') = <<>>
     ELSE /\ Len(GameEnded(emitted')) = IF state'.status = GAME_STATUS.COMPLETED THEN 1 ELSE 0
          /\ state'.status = GAME_STATUS.COMPLETED
             => /\ state.currentPhase = PHASES.SELL
                /\ state.currentRound = state.config.totalRounds
                /\ SellsExecuted]_vars

(* The phase each kind of action belongs to.                               *)
PhaseOfAction ==
  [PLACE_BID |-> PHASES.AUCTION, PASS |-> PHASES.AUCTION,
   PROPOSE_TRADE |-> PHASES.TRADING, ACCEPT_TRADE |-> PHASES.TRADING,
   CANCEL_TRADE |-> PHASES.TRADING, END_TRADING |-> PHASES.TRADING,
   REVEAL_GOAL |-> PHASES.GOAL_RESOLUTION, EXECUTE_REWARD |-> PHASES.GOAL_RESOLUTION,
   SELECT_CARDS_TO_SELL |-> PHASES.SELL, COMMIT_SELL |-> PHASES.SELL]

(* The call of the step was rejected: it threw the validation error, an    *)
(* ACTION_INVALID was emitted and the state is as it was.                  *)
RejectedUnchanged ==
  /\ outcome'.kind = "rejected"
  /\ EventsOf(emitted', "ACTION_INVALID") # <<>>
  /\ state' = state

(* C16: a call of any of the ten kinds of action while the current phase   *)
(* is not the phase of that kind (before start there is no current phase)  *)
(* is rejected and changes nothing.                                        *)
C16_PhaseGating ==
  [][(outcome'.type \in DOMAIN PhaseOfAction
      /\ state.currentPhase # PhaseOfAction[outcome'.type]) => RejectedUnchanged]_vars

(* C17: in every reachable state all four colours are priced, and every    *)
(* price is at least the configured floor and, when a ceiling is           *)
(* configured, at most the ceiling.                                        *)
C17_PriceClamping ==
  /\ DOMAIN state.stockPrices = ColorSet
  /\ \A c \in ColorSet :
       /\ state.stockPrices[c] >= state.config.minStockPrice
       /\ state.config.maxStockPrice # NoPrice
          => state.stockPrices[c] <= state.config.maxStockPrice

(* A stock-adjusting reward has just raised a price by more than the       *)
(* configured ceiling allows, above a raised floor.                        *)
C17_Witness ==
  /\ state.config.maxStockPrice # NoPrice
  /\ state.config.minStockPrice > 0
  /\ \E i \in 1..Len(emitted) :
       /\ emitted[i].type = "STOCK_PRICES_UPDATED"
       /\ emitted[i].reason = "reward"
       /\ emitted[i].changes[1].change > state.config.maxStockPrice
       /\ emitted[i].newPrices[emitted[i].changes[1].color] = state.config.maxStockPrice

PhaseOfKey ==
  [auction |-> PHASES.AUCTION, trading |-> PHASES.TRADING,
   goalResolution |-> PHASES.GOAL_RESOLUTION, sell |-> PHASES.SELL]

(* C19: in every reachable state each of the four working states is        *)
(* non-null only while its phase is the current phase.                     *)
C19_SubStateExclusive ==
  \A key \in DOMAIN PhaseOfKey :
    state.phaseState[key] # NullRecord => state.currentPhase = PhaseOfKey[key]

(* The round grows in the step: by one, out of a sell phase that the step  *)
(* completes in a round below the last, into a freshly started auction.    *)
RoundGrows ==
  /\ state'.currentRound = state.currentRound + 1
  /\ state.currentPhase = PHASES.SELL
  /\ SellsExecuted
  /\ state.currentRound < state.config.totalRounds
  /\ state'.currentPhase = PHASES.AUCTION
  /\ state'.phaseState.auction # NullRecord
  /\ state'.phaseState.auction.currentCardIndex = 0

(* C20: the round is 1 until the game starts, is never above totalRounds   *)
(* + 1, never decreases, changes only by growing by one as a sell phase    *)
(* completes below the last round, and does change then.                   *)
C20_RoundCounter ==
  /\ [](state.status = GAME_STATUS.NOT_STARTED => state.currentRound = 1)
  /\ [](state.currentRound \in 1..(state.config.totalRounds + 1))
  /\ [][/\ state'.currentRound # state.currentRound => RoundGrows
        /\ (state.currentPhase = PHASES.SELL /\ SellsExecuted
            /\ state.currentRound < state.config.totalRounds) => RoundGrows]_vars

(* The last commit of the first round has just started the second round.   *)
C20_Witness ==
  /\ outcome.type = "COMMIT_SELL"
  /\ state.currentRound = 2
  /\ state.currentPhase = PHASES.AUCTION
  /\ state.phaseState.auction.cardsToAuction # <<>>

(* The offers of the trading phase, and the positions whose status a step  *)
(* changes.                                                                *)
Offers(st) == st.phaseState.trading.activeOffers

StatusChanges ==
  {i \in 1..Len(Offers(state)) : Offers(state')[i].status # Offers(state)[i].status}

(* C21: while trading lasts, offers are only appended and only their       *)
(* status changes; a status changes only from active, to accepted or to    *)
(* cancelled; a step marks an offer accepted only as the accepted          *)
(* ACCEPT_TRADE of that offer by a player other than its proposer, and at  *)
(* most one offer per step; an accepted CANCEL_TRADE changes only the      *)
(* offer it names, which was active and belongs to the caller.             *)
C21_OfferLifecycle ==
  [][(state.currentPhase = PHASES.TRADING /\ state'.currentPhase = PHASES.TRADING) =>
       /\ Len(Offers(state')) >= Len(Offers(state))
       /\ \A i \in 1..Len(Offers(state)) :
            Offers(state')[i] = [Offers(state)[i] EXCEPT !.status = Offers(state')[i].status]
       /\ \A i \in StatusChanges :
            /\ Offers(state)[i].status = OFFER_STATUS.ACTIVE
            /\ Offers(state')[i].status \in {OFFER_STATUS.ACCEPTED, OFFER_STATUS.CANCELLED}
            /\ Recorded
            /\ LastAction(state').type \in {"ACCEPT_TRADE", "CANCEL_TRADE"}
            /\ Offers(state')[i].status = OFFER_STATUS.ACCEPTED =>
                 /\ LastAction(state').type = "ACCEPT_TRADE"
                 /\ LastAction(state').offerId = Offers(state)[i].offerId
                 /\ LastAction(state').playerId # Offers(state)[i].offeringPlayer
            /\ LastAction(state').type = "CANCEL_TRADE" =>
                 /\ Offers(state')[i].status = OFFER_STATUS.CANCELLED
                 /\ LastAction(state').offerId = Offers(state)[i].offerId
                 /\ LastAction(state').playerId = Offers(state)[i].offeringPlayer
       /\ Cardinality({i \in StatusChanges :
                         Offers(state')[i].status = OFFER_STATUS.ACCEPTED}) <= 1
       /\ Accepted("CANCEL_TRADE") => Cardinality(StatusChanges) = 1]_vars

(* An offer was accepted, and then its proposer cancelled another offer.   *)
C21_Witness ==
  /\ state.currentPhase = PHASES.TRADING
  /\ outcome.kind = "ok"
  /\ outcome.type = "CANCEL_TRADE"
  /\ \E i \in 1..Len(Offers(state)) : Offers(state)[i].status = OFFER_STATUS.ACCEPTED
  /\ \E i \in 1..Len(Offers(state)) :
       /\ Offers(state)[i].status = OFFER_STATUS.CANCELLED
       /\ Offers(state)[i].offeringPlayer = LastAction(state).playerId
       /\ Offers(state)[i].offerId = LastAction(state).offerId

(* The change a goal card makes to a colour's price (0 when the card does  *)
(* not name the colour).                                                   *)
DeltaOf(goalCardId, color) ==
  SumSeq([i \in 1..Len(GoalCards[goalCardId].stockChange) |->
            IF GoalCards[goalCardId].stockChange[i].color = color
            THEN GoalCards[goalCardId].stockChange[i].change ELSE 0])

(* The hand satisfies the goal of the card: it holds no card of the        *)
(* forbidden colour, or at least the required number of each colour.       *)
Satisfies(hand, goalCardId) ==
  LET goal == GoalCards[goalCardId].goal
  IN IF goal.type = "none_of" THEN CountColor(hand, goal.avoidColor) = 0
     ELSE \A i \in 1..Len(goal.requirements) :
            CountColor(hand, goal.requirements[i].color) >= goal.requirements[i].count

(* C22: an accepted REVEAL_GOAL leaves every price at the clamped sum of    *)
(* the old price and the card's change for that colour, records the goal   *)
(* as met exactly when the owner's hand satisfies it, and announces the    *)
(* reward exactly when the goal is met.                                    *)
C22_RevealEffect ==
  [][Accepted("REVEAL_GOAL") =>
       LET p == LastAction(state').playerId
           g == LastAction(state').goalCardId
           met == Satisfies(state.players[p].hand, g)
           goals == state'.phaseState.goalResolution.revealedGoals
       IN /\ \A c \in ColorSet :
               state'.stockPrices[c] =
                 IF DeltaOf(g, c) = 0 THEN state.stockPrices[c]
                 ELSE Max(state.config.minStockPrice,
                          IF state.config.maxStockPrice = NoPrice
                          THEN state.stockPrices[c] + DeltaOf(g, c)
                          ELSE Min(state.config.maxStockPrice,
                                   state.stockPrices[c] + DeltaOf(g, c)))
          /\ Len(goals) = Len(state.phaseState.goalResolution.revealedGoals) + 1
          /\ goals[Len(goals)].playerId = p
          /\ goals[Len(goals)].goalCard = g
          /\ goals[Len(goals)].goalMet = met
          /\ (EventsOf(emitted', "GOAL_CHECKED")[1].goalMet = met)
          /\ (EventsOf(emitted', "REWARD_AVAILABLE") # <<>>) = met]_vars

(* A reveal of a met goal has lowered a price by less than the card's      *)
(* change, down to the floor, and the reward was announced.                *)
C22_Witness ==
  /\ outcome.kind = "ok"
  /\ outcome.type = "REVEAL_GOAL"
  /\ EventsOf(emitted, "REWARD_AVAILABLE") # <<>>
  /\ \E c \in ColorSet :
       /\ DeltaOf(LastAction(state).goalCardId, c) + DEFAULT_CONFIG.startingStockPrice < 0
       /\ state.stockPrices[c] = state.config.minStockPrice

(* The goal cards of a player, and the positions whose revealed flag a     *)
(* step changes.                                                           *)
GoalCardsOf(st, p) == st.players[p].goalCards

FlagChanges ==
  {pi \in PlayerSet \X (1..Len(GoalCards)) :
     /\ pi[2] <= Len(GoalCardsOf(state, pi[1]))
     /\ GoalCardsOf(state', pi[1])[pi[2]].revealed # GoalCardsOf(state, pi[1])[pi[2]].revealed}

(* C23: every player keeps the same goal cards in every step; a revealed   *)
(* flag changes only from false to true, only in a step that starts in     *)
(* goal resolution and is the accepted REVEAL_GOAL of that card by its     *)
(* owner, and one flag per step; an accepted REVEAL_GOAL names an          *)
(* unrevealed card of the caller, and a REVEAL_GOAL that is not accepted   *)
(* is rejected and changes nothing.                                        *)
C23_RevealedFlag ==
  [][/\ \A p \in PlayerSet :
          /\ Len(GoalCardsOf(state', p)) = Len(GoalCardsOf(state, p))
          /\ \A i \in 1..Len(GoalCardsOf(state, p)) :
               GoalCardsOf(state', p)[i].id = GoalCardsOf(state, p)[i].id
     /\ \A pi \in FlagChanges :
          /\ ~ GoalCardsOf(state, pi[1])[pi[2]].revealed
          /\ state.currentPhase = PHASES.GOAL_RESOLUTION
          /\ Accepted("REVEAL_GOAL")
          /\ LastAction(state').playerId = pi[1]
          /\ LastAction(state').goalCardId = GoalCardsOf(state, pi[1])[pi[2]].id
     /\ Cardinality(FlagChanges) <= 1
     /\ Accepted("REVEAL_GOAL") =>
          /\ Cardinality(FlagChanges) = 1
          /\ \E i \in 1..Len(GoalCardsOf(state, LastAction(state').playerId)) :
               /\ GoalCardsOf(state, LastAction(state').playerId)[i].id
                    = LastAction(state').goalCardId
               /\ ~ GoalCardsOf(state, LastAction(state').playerId)[i].revealed
     /\ (outcome'.type = "REVEAL_GOAL" /\ ~ Recorded) => RejectedUnchanged]_vars

(* The player on turn named a card they had already revealed, and was      *)
(* refused.                                                                *)
C23_Witness ==
  /\ state.currentPhase = PHASES.GOAL_RESOLUTION
  /\ outcome.kind = "rejected"
  /\ outcome.type = "REVEAL_GOAL"
  /\ outcome.error = "Goal card already revealed"
  /\ \E p \in PlayerSet : \E i \in 1..Len(GoalCardsOf(state, p)) :
       GoalCardsOf(state, p)[i].revealed

(* The bid is legal in the state: the phase is auction, the player exists  *)
(* and has not passed on the current card, the amount is above the current *)
(* bid and within the player's cash.                                       *)
LegalBid(st, p, amount) ==
  /\ st.currentPhase = PHASES.AUCTION
  /\ p \in PlayerSet
  /\ p \in st.phaseState.auction.activeBidders
  /\ amount > st.phaseState.auction.currentBid
  /\ st.players[p].cash >= amount

(* executeAction takes the bid: it returns and records the action.         *)
BidAccepted(st, p, amount) ==
  \E w \in {ExecuteAction(st, [type |-> "PLACE_BID", playerId |-> p, amount |-> amount], 0)} :
    /\ w.thrown = NULL
    /\ Len(w.state.history) = Len(st.history) + 1

(* C24: in every reachable state a PLACE_BID is accepted exactly when it   *)
(* is legal, and during an auction the current bid is within the high      *)
(* bidder's cash; an accepted bid was legal, leaves the auction on the     *)
(* same card and makes its amount, above the previous bid, the current bid *)
(* and its player the high bidder.                                         *)
C24_BidLegality ==
  /\ [](/\ \A p \in ActorIds, amount \in BidAmounts :
             BidAccepted(state, p, amount) <=> LegalBid(state, p, amount)
        /\ (state.currentPhase = PHASES.AUCTION
            /\ state.phaseState.auction.currentHighBidder \in PlayerSet) =>
             state.phaseState.auction.currentBid
               <= state.players[state.phaseState.auction.currentHighBidder].cash)
  /\ [][Accepted("PLACE_BID") =>
          /\ LegalBid(state, LastAction(state').playerId, LastAction(state').amount)
          /\ state'.currentPhase = PHASES.AUCTION
          /\ state'.phaseState.auction.currentCardIndex
               = state.phaseState.auction.currentCardIndex
          /\ state'.phaseState.auction.currentBid = LastAction(state').amount
          /\ state'.phaseState.auction.currentBid > state.phaseState.auction.currentBid
          /\ state'.phaseState.auction.currentHighBidder = LastAction(state').playerId]_vars

(* Two bids were accepted on one card, the second above the first.         *)
C24_Witness ==
  /\ state.currentPhase = PHASES.AUCTION
  /\ outcome.kind = "ok"
  /\ outcome.type = "PLACE_BID"
  /\ Len(state.history) >= 2
  /\ state.history[Len(state.history) - 1].action.type = "PLACE_BID"
  /\ state.history[Len(state.history) - 1].action.amount < LastAction(state).amount
  /\ state.phaseState.auction.currentBid = LastAction(state).amount

(* The card ids the sell working state of a view names for a player.       *)
SelectionIn(view, q) ==
  IF view.currentPhase = PHASES.SELL
  THEN SeqToSet(view.phaseState.sell.playerSelections[q].cardsToSell)
  ELSE {}

(* C25: in every reachable state the view of a player keeps the player's   *)
(* own hand and goal cards, keeps the length of every other hand and goal  *)
(* list, shows each card of another hand as a hidden card without an id    *)
(* and each unrevealed goal card of another player as its revealed flag    *)
(* alone, is the same whatever cards the other player holds, and names no  *)
(* card of another player's hand in the sell selections.                   *)
C25_ViewHidesCards ==
  \A P \in PlayerSet :
    \E view \in {GetVisibleState(state, P)} :
      /\ view.players[P].hand = state.players[P].hand
      /\ view.players[P].goalCards = state.players[P].goalCards
      /\ \A q \in PlayerSet \ {P} :
           /\ Len(view.players[q].hand) = Len(state.players[q].hand)
           /\ Len(view.players[q].goalCards) = Len(state.players[q].goalCards)
           /\ \A i \in 1..Len(view.players[q].hand) :
                /\ DOMAIN view.players[q].hand[i] = {"type", "color"}
                /\ view.players[q].hand[i].color = "hidden"
           /\ \A i \in 1..Len(view.players[q].goalCards) :
                IF state.players[q].goalCards[i].revealed
                THEN view.players[q].goalCards[i] = state.players[q].goalCards[i]
                ELSE /\ DOMAIN view.players[q].goalCards[i] = {"type", "revealed"}
                     /\ ~ view.players[q].goalCards[i].revealed
           /\ GetVisibleState([state EXCEPT !.players[q].hand =
                                 [i \in 1..Len(@) |-> Len(DeckColors)]], P) = view
           /\ SeqToSet(state.players[q].hand) \cap SelectionIn(view, q) = {}

(* C26: a call whose kind is none of the ten known kinds passes            *)
(* validation (no ACTION_INVALID is emitted), fails in the dispatcher with *)
(* the unknown-action-type error, and leaves the state, history included,  *)
(* as it was.                                                              *)
C26_UnknownKind ==
  [][(outcome'.type \notin DOMAIN PhaseOfAction /\ outcome'.type \notin {"start", NULL}) =>
       /\ outcome'.kind = "threw"
       /\ outcome'.error = "Unknown action type"
       /\ EventsOf(emitted', "ACTION_INVALID") = <<>>
       /\ state' = state]_vars

(* C27: every step keeps the entries the history had, in their order; a    *)
(* call that passes validation appends exactly one entry, which carries    *)
(* the action with the round and the phase the call found; a rejected call *)
(* and start() append none.                                                *)
C27_HistoryAppendOnly ==
  [][/\ Len(state'.history) >= Len(state.history)
     /\ SubSeq(state'.history, 1, Len(state.history)) = state.history
     /\ IF outcome'.kind \in {"ok", "threw"} /\ outcome'.type # "start"
        THEN /\ Len(state'.history) = Len(state.history) + 1
             /\ state'.history[Len(state'.history)].round = state.currentRound
             /\ state'.history[Len(state'.history)].phase = state.currentPhase
             /\ state'.history[Len(state'.history)].action.type = outcome'.type
        ELSE state'.history = state.history]_vars

(* An accepted action has taken the game to another phase: its entry       *)
(* carries the phase it was submitted in, after earlier entries.           *)
C27_Witness ==
  /\ outcome.kind = "ok"
  /\ outcome.type # "start"
  /\ Len(state.history) >= 2
  /\ state.history[Len(state.history)].phase # state.currentPhase
  /\ state.history[Len(state.history)].phase = state.history[Len(state.history) - 1].phase

(* The draw pile, and the order the rearrangeTop call of the step was      *)
(* given.                                                                  *)
DrawPile(st) == st.resourceDeck.drawPile

(* The order names an id that is not among the top cards of the pile, as   *)
(* many of them as the order has ids.                                      *)
NamesForeignId(pile, newOrder) ==
  \E i \in 1..Len(newOrder) :
    newOrder[i] \notin {pile[j] : j \in 1..Min(Len(newOrder), Len(pile))}

(* C28 as stated: rearrangeTop called with an order whose count differs    *)
(* from the pile's, or with an id that is not among the top cards, fails   *)
(* and leaves the draw pile as it was.                                     *)
C28_RearrangeRejectsMismatch ==
  [][(outcome'.type = "rearrangeTop"
      /\ (Len(outcome'.newOrder) # Len(DrawPile(state))
          \/ NamesForeignId(DrawPile(state), outcome'.newOrder))) =>
       /\ outcome'.kind = "threw"
       /\ DrawPile(state') = DrawPile(state)]_vars

(* C28, amended: rearrangeTop fails, leaving the state as it was, exactly  *)
(* when the order is longer than the pile or names an id that is not among *)
(* as many top cards as the order has ids; any other order, a shorter one  *)
(* included, replaces that many top cards and leaves the rest of the pile. *)
C28_RearrangeRejectsBadInput ==
  [][outcome'.type = "rearrangeTop" =>
       IF Len(outcome'.newOrder) > Len(DrawPile(state))
          \/ NamesForeignId(DrawPile(state), outcome'.newOrder)
       THEN /\ outcome'.kind = "threw"
            /\ outcome'.error = IF Len(outcome'.newOrder) > Len(DrawPile(state))
                                THEN "Cannot rearrange" ELSE "Card ID not found"
            /\ state' = state
       ELSE /\ outcome'.kind = "ok"
            /\ Len(DrawPile(state')) = Len(DrawPile(state))
            /\ \A i \in 1..Len(DrawPile(state)) :
                 DrawPile(state')[i] = IF i <= Len(outcome'.newOrder)
                                       THEN outcome'.newOrder[i]
                                       ELSE DrawPile(state)[i]]_vars

(* An order of three ids was refused on a pile of four cards for an id     *)
(* that is not among the top three.                                        *)
C28_Witness ==
  /\ outcome.type = "rearrangeTop"
  /\ outcome.kind = "threw"
  /\ outcome.error = "Card ID not found"
  /\ Len(outcome.newOrder) = 3
  /\ Len(DrawPile(state)) = 4

(* The handlers subscribed to an event type, the wildcard ones included.   *)
Subscribers(ls, eventType) ==
  SeqToSet(HandlersOf(ls, eventType)) \cup SeqToSet(HandlersOf(ls, "*"))

(* The handler was called with the event in the call of the step.         *)
Called(h, eventType) ==
  \E i \in 1..Len(received') : received'[i] = [handler |-> h.id, event |-> eventType]

(* C29: when a handler that is called with the first event of a call       *)
(* throws, every handler subscribed to that event (to its type or to every *)
(* event) is called with it, and an accepted call leaves the state the     *)
(* engine computes without subscribers.                                    *)
C29_SubscriberIsolation ==
  [][(/\ emitted' # <<>>
      /\ \E h \in Subscribers(listeners, emitted'[1].type) :
           h.throws /\ Called(h, emitted'[1].type)) =>
       /\ \A h \in Subscribers(listeners, emitted'[1].type) : Called(h, emitted'[1].type)
       /\ Recorded => state' = ExecuteAction(state, LastAction(state'), 0).state]_vars

(* C30: a step changes a price only if it starts in goal resolution and is *)
(* an accepted REVEAL_GOAL or EXECUTE_REWARD; every other step, whatever   *)
(* phase or round it leads to, leaves all prices as they were.             *)
C30_PricesMoveInGoalResolution ==
  [][state'.stockPrices # state.stockPrices =>
       /\ state.currentPhase = PHASES.GOAL_RESOLUTION
       /\ Recorded
       /\ LastAction(state').type \in {"REVEAL_GOAL", "EXECUTE_REWARD"}]_vars

(* The last commit of a sell phase has taken the game to the next round's  *)
(* auction, with prices that goal resolution had moved off their start.    *)
C30_Witness ==
  /\ outcome.kind = "ok"
  /\ outcome.type = "COMMIT_SELL"
  /\ state.currentPhase = PHASES.AUCTION
  /\ state.currentRound > 1
  /\ \E c \in ColorSet : state.stockPrices[c] # state.config.startingStockPrice

(* What a player is worth in a state: cash plus, for each card in hand,    *)
(* the current price of its colour.                                        *)
WealthIn(st, p) ==
  st.players[p].cash
  + SumSeq([i \in 1..Len(st.players[p].hand) |-> st.stockPrices[ColorOf(st.players[p].hand[i])]])

(* C31: a GAME_ENDED notification lists every player once with the cash    *)
(* and the wealth (cash plus current prices of the cards in hand) the      *)
(* player has in the state the call leaves, in order of non-increasing     *)
(* wealth, and names the first entry of the list as the winner.            *)
C31_FinalRanking ==
  \A i \in 1..Len(emitted) :
    emitted[i].type = "GAME_ENDED" =>
      LET finalScores == emitted[i].finalScores
      IN /\ Len(finalScores) = NumPlayers
         /\ {finalScores[k].playerId : k \in 1..Len(finalScores)} = PlayerSet
         /\ \A k \in 1..Len(finalScores) :
              /\ finalScores[k].cash = state.players[finalScores[k].playerId].cash
              /\ finalScores[k].wealth = WealthIn(state, finalScores[k].playerId)
         /\ \A k \in 1..(Len(finalScores) - 1) :
              finalScores[k].wealth >= finalScores[k + 1].wealth
         /\ emitted[i].winner = finalScores[1]

(* The game has just ended with a winner who is not the first seat and     *)
(* with a player whose cards in hand count towards the wealth.             *)
C31_Witness ==
  /\ state.status = GAME_STATUS.COMPLETED
  /\ \E i \in 1..Len(emitted) :
       /\ emitted[i].type = "GAME_ENDED"
       /\ emitted[i].winner.playerId # PlayerIds[1]
       /\ emitted[i].finalScores[1].wealth > emitted[i].finalScores[2].wealth
       /\ \E k \in 1..NumPlayers :
            emitted[i].finalScores[k].wealth > emitted[i].finalScores[k].cash

(* The card in a hand of the state.                                        *)
InSomeHand(st, card) == \E p \in PlayerSet : Contains(st.players[p].hand, card)

CardOpens ==
  /\ state'.currentPhase = PHASES.AUCTION
  /\ state'.phaseState.auction.currentCardIndex < Len(state'.phaseState.auction.cardsToAuction)
  /\ \/ state.currentPhase # PHASES.AUCTION
     \/ state'.phaseState.auction.currentCardIndex # state.phaseState.auction.currentCardIndex

(* The card is open with everything reset: the queue's card at the index,  *)
(* all players active, bid 0, no high bidder and no last raiser.           *)
FreshCard(st) ==
  /\ st.phaseState.auction.currentCard
       = st.phaseState.auction.cardsToAuction[st.phaseState.auction.currentCardIndex + 1]
  /\ st.phaseState.auction.activeBidders = PlayerSet
  /\ st.phaseState.auction.currentBid = 0
  /\ st.phaseState.auction.currentHighBidder = NULL
  /\ st.phaseState.auction.lastRaiserIndex = NoIndex

(* C33 as stated: whenever a card opens for bidding, all players are       *)
(* active bidders, the bid is 0 with no high bidder, and the turn pointer  *)
(* is on the seat immediately after the current dealer seat.               *)
C33_OpeningTurnAfterDealer ==
  [][CardOpens =>
       /\ FreshCard(state')
       /\ state'.phaseState.auction.currentPlayerIndex
            = (state'.dealerIndex + 1) % NumPlayers]_vars

(* C33: whenever a card opens for bidding, all players are active bidders, *)
(* the bid is 0 with no high bidder and no last raiser, and the turn       *)
(* pointer is on the current dealer seat, whose player is the starting     *)
(* player; from one card of a phase to the next the dealer seat advances   *)
(* by one, wrapping.                                                       *)
C33_OpeningTurn ==
  [][CardOpens =>
       /\ FreshCard(state')
       /\ state'.phaseState.auction.currentPlayerIndex = state'.dealerIndex
       /\ state'.phaseState.auction.startingPlayer = TurnOrderAt(state'.dealerIndex)
       /\ state.currentPhase = PHASES.AUCTION
            => state'.dealerIndex = (state.dealerIndex + 1) % NumPlayers]_vars

(* The second card of an auction has just opened after the passes on the   *)
(* first, with the turn on the new dealer seat.                            *)
C33_Witness ==
  /\ state.currentPhase = PHASES.AUCTION
  /\ outcome.type = "PASS"
  /\ outcome.kind = "ok"
  /\ state.phaseState.auction.currentCardIndex = 1
  /\ state.phaseState.auction.activeBidders = PlayerSet
  /\ state.phaseState.auction.currentPlayerIndex = 1
  /\ state.dealerIndex = 1

(* C34: while a card is bid on, whenever there is a high bidder the        *)
(* last-raiser marker is set and designates the high bidder's seat, so     *)
(* after every accepted bid it designates the seat of the player who       *)
(* placed that bid.                                                        *)
C34_LastRaiserIsHighBidder ==
  (state.currentPhase = PHASES.AUCTION
   /\ state.phaseState.auction.currentHighBidder # NULL) =>
    /\ state.phaseState.auction.lastRaiserIndex # NoIndex
    /\ TurnOrderAt(state.phaseState.auction.lastRaiserIndex)
         = state.phaseState.auction.currentHighBidder

(* The players still bidding on the card once the step's action is done:   *)
(* the active bidders, less the player who passes in the step.             *)
StillBidding ==
  state.phaseState.auction.activeBidders
    \ (IF LastAction(state').type = "PASS" THEN {LastAction(state').playerId} ELSE {})

(* C35: when an accepted bid or pass closes the bidding on a card, every   *)
(* player who has not passed on the card receives it, so the only player   *)
(* still bidding is the winner and every other player has passed.          *)
C35_NoBidderCutOff ==
  [][(CardResolved /\ Recorded) =>
       \A q \in StillBidding :
         state'.players[q].hand
           = Append(state.players[q].hand, state.phaseState.auction.currentCard)]_vars

(* The step executes a pending adjust-stock reward.                        *)
AdjustStockExecuted ==
  /\ PendingType(state) = "adjust_stock"
  /\ Accepted("EXECUTE_REWARD")
  /\ \E i \in 1..Len(emitted') :
       emitted'[i].type = "STOCK_PRICES_UPDATED" /\ emitted'[i].reason = "reward"

(* C36: a step that executes the adjust-stock reward moves the price of    *)
(* exactly one colour by +1 or -1, clamped to the price bounds, and leaves *)
(* the prices of the other colours as they were, whatever choices the      *)
(* action carries.                                                         *)
C36_AdjustStockBounded ==
  [][AdjustStockExecuted =>
       \E color \in ColorSet, direction \in {-1, 1} :
         state'.stockPrices =
           [state.stockPrices EXCEPT
              ![color] = ConstrainPrice(state.config, @ + direction)]]_vars

(* How many times a card is in a pile.                                     *)
TimesIn(pile, card) == Cardinality({i \in 1..Len(pile) : pile[i] = card})

(* C37: whenever rearrangeTop succeeds, the draw pile afterwards holds     *)
(* every card as many times as before, so the same cards each once, and    *)
(* the cards below the rearranged top are where they were.                 *)
C37_RearrangeIsPermutation ==
  [][(outcome'.type = "rearrangeTop" /\ outcome'.kind = "ok") =>
       /\ Len(DrawPile(state')) = Len(DrawPile(state))
       /\ \A card \in SeqToSet(DrawPile(state)) \cup SeqToSet(DrawPile(state')) :
            TimesIn(DrawPile(state'), card) = TimesIn(DrawPile(state), card)
       /\ \A i \in (Len(outcome'.newOrder) + 1)..Len(DrawPile(state)) :
            DrawPile(state')[i] = DrawPile(state)[i]]_vars

(* The state in which the sell phase under study begins.                   *)
SellStart ==
  Only({ Perform(PlayTo(Started(d, g), 1, PHASES.GOAL_RESOLUTION, 200),
                 <<[type |-> "REVEAL_GOAL", playerId |-> PlayerIds[1], goalCardId |-> 1],
                   [type |-> "REVEAL_GOAL", playerId |-> PlayerIds[2], goalCardId |-> 4],
                   [type |-> "EXECUTE_REWARD", playerId |-> PlayerIds[2], choices |-> NoChoices],
                   [type |-> "REVEAL_GOAL", playerId |-> PlayerIds[3], goalCardId |-> 8]>>)
         : d \in DeckOrders, g \in GoalOrders })

(* The accepted selections of a player in the sell phase, by their place   *)
(* in the history, and the last of them: the player's final selection.     *)
SelectionSteps(st, p) ==
  {i \in (Len(SellStart.history) + 1)..Len(st.history) :
     /\ st.history[i].action.type = "SELECT_CARDS_TO_SELL"
     /\ st.history[i].action.playerId = p}

FinalSelection(st, p) ==
  IF SelectionSteps(st, p) = {} THEN <<>>
  ELSE st.history[CHOOSE i \in SelectionSteps(st, p) :
                    \A j \in SelectionSteps(st, p) : j <= i].action.cardIds

(* The sell phase played seat by seat: each player in turn selects the     *)
(* given cards and commits.                                                *)
RECURSIVE InSeatOrder(_, _)
InSeatOrder(final, i) ==
  IF i > NumPlayers THEN <<>>
  ELSE <<[type |-> "SELECT_CARDS_TO_SELL", playerId |-> PlayerIds[i],
          cardIds |-> final[PlayerIds[i]]],
         [type |-> "COMMIT_SELL", playerId |-> PlayerIds[i]]>>
       \o InSeatOrder(final, i + 1)

(* What the claim compares: every player's cash, hand and sell bonus, and  *)
(* the set of discarded cards.                                             *)
SellResult(st) ==
  [players |-> [p \in PlayerSet |-> [cash |-> st.players[p].cash,
                                     hand |-> st.players[p].hand,
                                     sellBonus |-> st.players[p].sellBonus]],
   discarded |-> SeqToSet(st.resourceDeck.discardPile)]

(* C38: once the sell phase has completed, the players' cash, hands and    *)
(* sell bonuses and the set of discarded cards are those that the final    *)
(* selections give when the players select and commit seat by seat, in     *)
(* whatever order the selections and commits were actually made.           *)
C38_SellOrderIndependence ==
  (Len(state.history) > Len(SellStart.history) /\ state.currentPhase # PHASES.SELL) =>
    SellResult(state)
      = SellResult(Perform(SellStart,
                           InSeatOrder([p \in PlayerSet |-> FinalSelection(state, p)], 1)))

(* The phase has completed after the last seat committed first and a       *)
(* player selected cards that were then sold.                              *)
C38_Witness ==
  /\ state.currentPhase # PHASES.SELL
  /\ Len(state.history) = Len(SellStart.history) + NumPlayers + 1
  /\ state.history[Len(SellStart.history) + 1].action
       = [type |-> "COMMIT_SELL", playerId |-> PlayerIds[NumPlayers]]
  /\ state.history[Len(state.history)].action.playerId = PlayerIds[2]
  /\ Len(FinalSelection(state, PlayerIds[1])) > 1
  /\ state.players[PlayerIds[1]].hand = <<>>
  /\ state.players[PlayerIds[1]].cash > SellStart.players[PlayerIds[1]].cash

(* The calls a complete delivery of an event makes: the handlers of the    *)
(* event's type and then the wildcard handlers, each once, in the order in *)
(* which they were subscribed.                                             *)
ExpectedCalls(ls, eventType) ==
  [i \in 1..Len(HandlersOf(ls, eventType)) |->
     [handler |-> HandlersOf(ls, eventType)[i].id, event |-> eventType]]
  \o [i \in 1..Len(HandlersOf(ls, "*")) |->
        [handler |-> HandlersOf(ls, "*")[i].id, event |-> eventType]]

(* C39: the first emit of a call invokes every handler subscribed to the   *)
(* event's type or to the wildcard when the call begins exactly once, in   *)
(* subscription order, and leaves none of the handlers registered with     *)
(* once that it concerns subscribed for a later emit.                      *)
C39_CompleteFanOut ==
  [][emitted' # <<>> =>
       /\ Len(received') >= Len(ExpectedCalls(listeners, emitted'[1].type))
       /\ SubSeq(received', 1, Len(ExpectedCalls(listeners, emitted'[1].type)))
            = ExpectedCalls(listeners, emitted'[1].type)
       /\ \A h \in Subscribers(listeners, emitted'[1].type) :
            h.once => h \notin Subscribers(listeners', emitted'[1].type)]_vars

(* The actions tried in a state: every kind, with the inputs tried for it. *)
ActionsAt(st) ==
  {[type |-> "PLACE_BID", playerId |-> p, amount |-> amount] :
     p \in ActorsIn(st, PHASES.AUCTION), amount \in BidAmounts}
  \cup {[type |-> "PASS", playerId |-> p] : p \in ActorsIn(st, PHASES.AUCTION)}
  \cup {[type |-> "PROPOSE_TRADE", playerId |-> p, offering |-> proposal.offering,
         requesting |-> proposal.requesting] :
          p \in ActorsIn(st, PHASES.TRADING), proposal \in Proposals}
  \cup {[type |-> type, playerId |-> p, offerId |-> o] :
          type \in {"ACCEPT_TRADE", "CANCEL_TRADE"},
          p \in ActorsIn(st, PHASES.TRADING), o \in OfferIdsOf(st)}
  \cup {[type |-> type] : type \in {"END_TRADING", "SHUFFLE"}}
  \cup UNION {{[type |-> "REVEAL_GOAL", playerId |-> p, goalCardId |-> g] :
                 g \in GoalIdsOf(st, p) \cup GoalIds} :
              p \in ActorsIn(st, PHASES.GOAL_RESOLUTION)}
  \cup UNION {{[type |-> "EXECUTE_REWARD", playerId |-> p, choices |-> choices] :
                 choices \in ChoicesOf(st, p)} :
              p \in ActorsIn(st, PHASES.GOAL_RESOLUTION)}
  \cup UNION {{[type |-> "SELECT_CARDS_TO_SELL", playerId |-> p, cardIds |-> cardIds] :
                 cardIds \in SelectionsOf(st, p)} :
              p \in ActorsIn(st, PHASES.SELL)}
  \cup {[type |-> "COMMIT_SELL", playerId |-> p] : p \in ActorsIn(st, PHASES.SELL)}

(* The state without the record of the actions taken.                      *)
Position(st) == [st EXCEPT !.history = <<>>]

(* Validation accepts the action and executing it changes more than the    *)
(* history.                                                                *)
Advances(st, action, rnd) ==
  /\ ValidateAction(st, action) = VALID
  /\ Position(ExecuteAction(st, action, rnd).state) # Position(st)

(* C40: in every reachable state whose status is in-progress some action   *)
(* that validation accepts changes the state beyond recording the action   *)
(* in the history; where none does, no sequence of accepted actions leads  *)
(* to status completed.                                                    *)
C40_NoDeadlock ==
  state.status = GAME_STATUS.IN_PROGRESS =>
    \E action \in ActionsAt(state), rnd \in RandomIn(state) : Advances(state, action, rnd)

====
